---- MODULE Spec2Model ----
(***************************************************************************)
(* Grouped aggregation core of polars: group discovery (polars-core        *)
(* frame/groupby/mod.rs), the GroupBy session and the partitioned group-by *)
(* executor (polars-lazy physical_plan/executors/groupby.rs).              *)
(*                                                                         *)
(* Conventions.  Row indices are 0-based as in the code; a column is a     *)
(* TLA+ sequence, so row i of column c is c[i + 1].  A null is the value   *)
(* Null.  A GroupTuples value is a sequence of <<first, members>> pairs.   *)
(* Hashes are unsigned integers of HashBits bits: the code uses u64, the   *)
(* model keeps the wrap-around of that type at a width small enough to     *)
(* enumerate (2^HashBits mod 3 = 1 = 2^64 mod 3).                          *)
(***************************************************************************)
EXTENDS Integers, Sequences, FiniteSets, TLC

\* ---------------------------------------------------------------- bounds
MaxRows == 3
MaxThreads == 3

\* u64 of the code, scaled: hashes live in 0 .. 2^HashBits - 1.
HashBits == 2
HashMod == 2 ^ HashBits

\* group_multithreaded: ca.len() > 1000; scaled so that frames of MaxRows
\* rows lie on both sides of the threshold.
MT_THRESHOLD == 1

Null == -1
KeyVals == {0, 1, Null}
\* payloads of the columns of a two-key frame
Key1of2Vals == {0, 1}
Key2of2Vals == {0, Null}

\* ------------------------------------------------------- sequence helpers
Range(s) == {s[i] : i \in 1 .. Len(s)}

RECURSIVE SeqsUpTo(_, _)
SeqsUpTo(S, n) ==
  IF n = 0 THEN {<<>>}
  ELSE LET shorter == SeqsUpTo(S, n - 1)
       IN  shorter \cup {Append(s, x) : s \in {t \in shorter : Len(t) = n - 1}, x \in S}

\* Iterator::collect into a Vec: the items, evaluated once
collect(iter) == iter \o <<>>

RECURSIVE Flatten(_)
Flatten(ss) == IF ss = <<>> THEN <<>> ELSE Head(ss) \o Flatten(Tail(ss))

\* Lexicographic order on sequences of naturals (Ord for Vec<u32>).
RECURSIVE SeqLess(_, _)
SeqLess(a, b) ==
  IF a = <<>> THEN b # <<>>
  ELSE IF b = <<>> THEN FALSE
  ELSE IF Head(a) # Head(b) THEN Head(a) < Head(b)
  ELSE SeqLess(Tail(a), Tail(b))

\* Ord for (u32, Vec<u32>): first index, then the members.
TupleLess(a, b) == a[1] < b[1] \/ (a[1] = b[1] /\ SeqLess(a[2], b[2]))

RECURSIVE InsertSorted(_, _)
InsertSorted(s, e) ==
  IF s = <<>> THEN <<e>>
  ELSE IF TupleLess(e, Head(s)) THEN <<e>> \o s
  ELSE <<Head(s)>> \o InsertSorted(Tail(s), e)

\* Vec::sort on GroupTuples (used by groupby_stable and by the tests'
\* .sorted()).
RECURSIVE SortGroups(_)
SortGroups(g) ==
  IF g = <<>> THEN <<>> ELSE InsertSorted(SortGroups(Tail(g)), Head(g))

\* --------------------------------------------------------- hash tables
\* A table is a sequence of entries [k, h, first, idx] in insertion order.
\* into_iter of the hash map yields the entries by bucket, that is by
\* ascending hash, entries of one bucket in insertion order; the hash seed
\* is free, so every relative order of distinct keys occurs.
RECURSIVE InsertByHash(_, _)
InsertByHash(s, e) ==
  IF s = <<>> THEN <<e>>
  ELSE IF e.h < Head(s).h THEN <<e>> \o s
  ELSE <<Head(s)>> \o InsertByHash(Tail(s), e)

RECURSIVE IterOrder(_)
IterOrder(tbl) ==
  IF tbl = <<>> THEN <<>>
  ELSE InsertByHash(IterOrder(SubSeq(tbl, 1, Len(tbl) - 1)), tbl[Len(tbl)])

\* position of the entry of key k in tbl, 0 if vacant
RECURSIVE FindKey(_, _, _)
FindKey(tbl, k, i) ==
  IF i > Len(tbl) THEN 0
  ELSE IF tbl[i].k = k THEN i
  ELSE FindKey(tbl, k, i + 1)

\* an insertion whose Occupied arm also moves the first index to the row
InsertOrPush_move_first(tbl, h, k, idx) ==
  LET p == FindKey(tbl, k, 1)
  IN  IF p = 0
      THEN Append(tbl, [k |-> k, h |-> h, first |-> idx, idx |-> <<idx>>])
      ELSE [tbl EXCEPT ![p].idx = Append(@, idx), ![p].first = idx]

\* Vacant: insert (idx, [idx]); Occupied: push idx on the members.
InsertOrPush(tbl, h, k, idx) ==
  LET p == FindKey(tbl, k, 1)
  IN  IF p = 0
      THEN Append(tbl, [k |-> k, h |-> h, first |-> idx, idx |-> <<idx>>])
      ELSE [tbl EXCEPT ![p].idx = Append(@, idx)]

ToTuples(tbl) == collect([i \in 1 .. Len(tbl) |-> <<tbl[i].first, tbl[i].idx>>])

\* ------------------------------------------------------ hashing, splitting
\* RandomState: a seed is a function from key payloads to hashes.
Seeds == [KeyVals -> 0 .. HashMod - 1]

Hash(seed, k) == seed[k]

\* split_ca / split_df: n contiguous slices of total_len / n rows, the last
\* one taking the remainder.
split_offset(total_len, n, i) == i * (total_len \div n)

split_len(total_len, n, i) ==
  IF i = n - 1 THEN total_len - split_offset(total_len, n, i) ELSE total_len \div n

split_ca(ca, n) ==
  IF n = 1 THEN <<ca>>
  ELSE collect([j \in 1 .. n |->
                  SubSeq(ca, split_offset(Len(ca), n, j - 1) + 1,
                         split_offset(Len(ca), n, j - 1) + split_len(Len(ca), n, j - 1))])

\* a frame of key columns is a sequence of columns; split_df slices every
\* column the same way.
split_df(keys, n) ==
  collect([j \in 1 .. n |-> collect([c \in 1 .. Len(keys) |-> split_ca(keys[c], n)[j]])])

\* (hash, key) of every row of every shard, computed once with one seed.
create_hash_and_keys_threaded_vectorized(iters, seed) ==
  collect([s \in 1 .. Len(iters) |->
             collect([i \in 1 .. Len(iters[s]) |->
                        [h |-> Hash(seed, iters[s][i]), k |-> iters[s][i]]])])

\* ------------------------------------------------ single key, serial path
RECURSIVE hashed_relation(_, _, _, _)
hashed_relation(tbl, a, i, seed) ==
  IF i > Len(a) THEN tbl
  ELSE hashed_relation(InsertOrPush(tbl, Hash(seed, a[i]), a[i], i - 1), a, i + 1, seed)

prepare_hashed_relation(a, seed) == hashed_relation(<<>>, a, 1, seed)

\* first = indexes[0]
groupby(a, seed) ==
  LET hash_tbl == IterOrder(prepare_hashed_relation(a, seed))
  IN  collect([i \in 1 .. Len(hash_tbl) |-> <<hash_tbl[i].idx[1], hash_tbl[i].idx>>])

\* ----------------------------------------------- single key, sharded path
\* u64 addition: wraps when overflow checks are off, panics when they are on.
u64_add(a, b) == (a + b) % HashMod

u64_add_overflows(a, b) == a + b >= HashMod

\* if (h + thread_no) % n_threads == 0
partition_pred(h, thread_no, n_threads) == u64_add(h, thread_no) % n_threads = 0

RECURSIVE scan_shard(_, _, _, _, _, _)
scan_shard(tbl, hk, i, offset, thread_no, n_threads) ==
  IF i > Len(hk) THEN tbl
  ELSE LET idx == i - 1
           nxt == IF partition_pred(hk[i].h, thread_no, n_threads)
                  THEN InsertOrPush(tbl, hk[i].h, hk[i].k, idx + offset)
                  ELSE tbl
       IN  scan_shard(nxt, hk, i + 1, offset, thread_no, n_threads)

\* for hashes_and_keys in hashes_and_keys { ...; offset += len }
RECURSIVE scan_shards(_, _, _, _, _, _)
scan_shards(tbl, hks, s, offset, thread_no, n_threads) ==
  IF s > Len(hks) THEN tbl
  ELSE scan_shards(scan_shard(tbl, hks[s], 1, offset, thread_no, n_threads),
                   hks, s + 1, offset + Len(hks[s]), thread_no, n_threads)

\* a sharded discovery whose worker t starts at shard t and scans the
\* shards before it last
groupby_threaded_own_shard_first(iters, seed) ==
  LET n_threads == Len(iters)
      hashes_and_keys == create_hash_and_keys_threaded_vectorized(iters, seed)
  IN  [t \in 1 .. n_threads |->
         ToTuples(IterOrder(
           scan_shards(scan_shards(<<>>, hashes_and_keys, t,
                                   Len(Flatten(SubSeq(iters, 1, t - 1))), t - 1, n_threads),
                       SubSeq(hashes_and_keys, 1, t - 1), 1, 0, t - 1, n_threads)))]

groupby_threaded(iters, seed) ==
  LET n_threads == Len(iters)
      hashes_and_keys == create_hash_and_keys_threaded_vectorized(iters, seed)
  IN  [t \in 1 .. n_threads |->
         ToTuples(IterOrder(scan_shards(<<>>, hashes_and_keys, 1, 0, t - 1, n_threads)))]

groupby_threaded_flat(iters, seed) == Flatten(groupby_threaded(iters, seed))

\* some worker adds its thread number to a hash beyond the u64 range
groupby_threaded_overflows(iters, seed) ==
  \E s \in 1 .. Len(iters) : \E i \in 1 .. Len(iters[s]) : \E t \in 0 .. Len(iters) - 1 :
     u64_add_overflows(Hash(seed, iters[s][i]), t)

\* ------------------------------------------------------------ multiple keys
\* Series::equal_element: key equality of two rows of one column (payload
\* and nullness).
equal_element(s, idx_a, idx_b) == s[idx_a + 1] = s[idx_b + 1]

\* for s in keys.get_columns() { if !equal { return false } } true
RECURSIVE compare_from(_, _, _, _)
compare_from(keys, c, idx_a, idx_b) ==
  IF c > Len(keys) THEN TRUE
  ELSE IF ~equal_element(keys[c], idx_a, idx_b) THEN FALSE
  ELSE compare_from(keys, c + 1, idx_a, idx_b)

compare_df_rows(keys, idx_a, idx_b) == compare_from(keys, 1, idx_a, idx_b)

\* from_hash(h, eq): the first stored IdxHash with that hash whose row
\* compares equal to row idx; 0 if vacant.
RECURSIVE FindRow(_, _, _, _, _)
FindRow(tbl, h, keys, idx, i) ==
  IF i > Len(tbl) THEN 0
  ELSE IF tbl[i].h = h /\ compare_df_rows(keys, tbl[i].k, idx) THEN i
  ELSE FindRow(tbl, h, keys, idx, i + 1)

\* the number of calls of equal_element the loop of compare_df_rows makes
RECURSIVE compared_from(_, _, _, _)
compared_from(keys, c, idx_a, idx_b) ==
  IF c > Len(keys) THEN 0
  ELSE IF ~equal_element(keys[c], idx_a, idx_b) THEN 1
  ELSE 1 + compared_from(keys, c + 1, idx_a, idx_b)

\* an insertion that takes the first stored row of hash h for the row
populate_multiple_key_hashmap_by_hash(hash_tbl, idx, h, keys) ==
  LET hits == {i \in 1 .. Len(hash_tbl) : hash_tbl[i].h = h}
      p == IF hits = {} THEN 0 ELSE CHOOSE i \in hits : \A j \in hits : i <= j
  IN  IF p = 0
      THEN Append(hash_tbl, [k |-> idx, h |-> h, first |-> idx, idx |-> <<idx>>])
      ELSE [hash_tbl EXCEPT ![p].idx = Append(@, idx)]

\* vacant_fn = (idx, vec![idx]); occupied_fn = v.1.push(idx)
populate_multiple_key_hashmap(hash_tbl, idx, h, keys) ==
  LET p == FindRow(hash_tbl, h, keys, idx, 1)
  IN  IF p = 0
      THEN Append(hash_tbl, [k |-> idx, h |-> h, first |-> idx, idx |-> <<idx>>])
      ELSE [hash_tbl EXCEPT ![p].idx = Append(@, idx)]

\* mixing of the per-column field hashes into the hash of a row
hash_combine(l, r) == (3 * l + r + 1) % HashMod

RECURSIVE row_hash(_, _, _, _)
row_hash(keys, seed, c, i) ==
  IF c = 0 THEN 0
  ELSE hash_combine(row_hash(keys, seed, c - 1, i), Hash(seed, keys[c][i]))

height(keys) == IF keys = <<>> THEN 0 ELSE Len(keys[1])

df_rows_to_hashes(keys, seed) ==
  [i \in 1 .. height(keys) |-> row_hash(keys, seed, Len(keys), i)]

df_rows_to_hashes_threaded(dfs, seed) ==
  [s \in 1 .. Len(dfs) |-> df_rows_to_hashes(dfs[s], seed)]

RECURSIVE multiple_keys_loop(_, _, _, _)
multiple_keys_loop(tbl, hashes, i, keys) ==
  IF i > Len(hashes) THEN tbl
  ELSE multiple_keys_loop(populate_multiple_key_hashmap(tbl, i - 1, hashes[i], keys),
                          hashes, i + 1, keys)

groupby_multiple_keys(keys, seed) ==
  ToTuples(IterOrder(multiple_keys_loop(<<>>, df_rows_to_hashes(keys, seed), 1, keys)))

\* this_thread(h, thread_no, n_threads) of vector_hasher: the partition
\* predicate (h + t) mod T == 0
this_thread(h, thread_no, n_threads) == (h + thread_no) % n_threads = 0

RECURSIVE scan_rows(_, _, _, _, _, _, _)
scan_rows(tbl, hashes, i, offset, thread_no, n_threads, keys) ==
  IF i > Len(hashes) THEN tbl
  ELSE LET idx == i - 1
           nxt == IF this_thread(hashes[i], thread_no, n_threads)
                  THEN populate_multiple_key_hashmap(tbl, idx + offset, hashes[i], keys)
                  ELSE tbl
       IN  scan_rows(nxt, hashes, i + 1, offset, thread_no, n_threads, keys)

RECURSIVE scan_frames(_, _, _, _, _, _, _)
scan_frames(tbl, hashes, s, offset, thread_no, n_threads, keys) ==
  IF s > Len(hashes) THEN tbl
  ELSE scan_frames(scan_rows(tbl, hashes[s], 1, offset, thread_no, n_threads, keys),
                   hashes, s + 1, offset + Len(hashes[s]), thread_no, n_threads, keys)

groupby_threaded_multiple_keys_flat(keys, n_threads, seed) ==
  LET dfs == split_df(keys, n_threads)
      hashes == df_rows_to_hashes_threaded(dfs, seed)
  IN  Flatten([t \in 1 .. n_threads |->
         ToTuples(IterOrder(scan_frames(<<>>, hashes, 1, 0, t - 1, n_threads, keys)))])

\* ------------------------------------------------------- group discovery
\* ca.len() > 1000
group_multithreaded(ca) == Len(ca) > MT_THRESHOLD

DTypes == {"Int", "Float", "Bool", "Utf8", "Categorical", "Date", "List", "Object"}

\* the impls of IntoGroupTuples: integers (dates are integers), boolean,
\* UTF-8, categorical (cast to its u32 codes) and floats (by their bits);
\* ListChunked and ObjectChunked keep the trait's default body.
HasGroupTuples(dtype) == dtype \notin {"List", "Object"}

Ok(g) == [status |-> "ok", groups |-> g]

Failed(why) == [status |-> why, groups |-> <<>>]

\* Series::group_tuples; overflow_checks is the build's setting for
\* arithmetic overflow (on: the addition panics; off: it wraps).
group_tuples(ca, dtype, multithreaded, n_threads, seed, overflow_checks) ==
  IF ~HasGroupTuples(dtype) THEN Failed("panic: not implemented")
  ELSE IF multithreaded /\ group_multithreaded(ca)
  THEN LET splitted == split_ca(ca, n_threads)
       IN  IF overflow_checks /\ groupby_threaded_overflows(splitted, seed)
           THEN Failed("panic: attempt to add with overflow")
           ELSE Ok(groupby_threaded_flat(splitted, seed))
  ELSE Ok(groupby(ca, seed))

\* ------------------------------------------------------------- float keys
\* A float is written by name, one name per bit pattern: two zeros, two
\* NaNs that differ in the sign bit, and one; FloatNull is the null of a
\* float column.
FloatNull == "null"

\* to_bits of a float whose zero has lost its sign
to_bits_canonical(v) ==
  CASE v = "+0.0" -> 0 [] v = "1.0" -> 1 [] v = "NaN" -> 3 [] v = "-0.0" -> 0 [] v = "-NaN" -> 7

\* f64::to_bits: the bit pattern, sign bit first, at a width of three bits
to_bits(v) ==
  CASE v = "+0.0" -> 0 [] v = "1.0" -> 1 [] v = "NaN" -> 3 [] v = "-0.0" -> 4 [] v = "-NaN" -> 7

\* ca.into_iter().map(|opt_v| opt_v.map(|v| v.to_bits())); without nulls
\* into_no_null_iter().map(|v| v.to_bits()) yields the same keys
map_to_bits(ca) ==
  collect([i \in 1 .. Len(ca) |-> IF ca[i] = FloatNull THEN Null ELSE to_bits(ca[i])])

\* impl_into_group_tpls_float!: group_tuples of a Float32 or Float64 column
impl_into_group_tpls_float(self, multithreaded, n_threads, seed, overflow_checks) ==
  IF multithreaded /\ group_multithreaded(self)
  THEN LET splitted == split_ca(self, n_threads)
           iters == collect([s \in 1 .. Len(splitted) |-> map_to_bits(splitted[s])])
       IN  IF overflow_checks /\ groupby_threaded_overflows(iters, seed)
           THEN Failed("panic: attempt to add with overflow")
           ELSE Ok(groupby_threaded_flat(iters, seed))
  ELSE Ok(groupby(map_to_bits(self), seed))

\* DataFrame::new: the columns must have one common length.
DataFrame_new(columns) ==
  IF \A c \in 1 .. Len(columns) : Len(columns[c]) = Len(columns[1])
  THEN "ok" ELSE "ShapeMisMatch"

\* groupby_with_series without the comparison of the first key's length
\* with the height of the frame
groupby_with_series_no_len_check(df_height, by, dtype, multithreaded, n_threads, seed, overflow_checks) ==
  IF by = <<>> THEN Failed("ShapeMisMatch")
  ELSE IF DataFrame_new(by) # "ok" THEN Failed(DataFrame_new(by))
  ELSE IF Len(by) = 1
  THEN group_tuples(by[1], dtype, multithreaded, n_threads, seed, overflow_checks)
  ELSE IF multithreaded
  THEN Ok(groupby_threaded_multiple_keys_flat(by, n_threads, seed))
  ELSE Ok(groupby_multiple_keys(by, seed))

\* DataFrame::groupby_with_series
groupby_with_series(df_height, by, dtype, multithreaded, n_threads, seed, overflow_checks) ==
  IF by = <<>> \/ Len(by[1]) # df_height THEN Failed("ShapeMisMatch")
  ELSE IF DataFrame_new(by) # "ok" THEN Failed(DataFrame_new(by))
  ELSE IF Len(by) = 1
  THEN group_tuples(by[1], dtype, multithreaded, n_threads, seed, overflow_checks)
  ELSE IF multithreaded
  THEN Ok(groupby_threaded_multiple_keys_flat(by, n_threads, seed))
  ELSE Ok(groupby_multiple_keys(by, seed))

\* groupby passing multithreaded = false
df_groupby_serial(df_height, selected_keys, dtype, n_threads, seed, overflow_checks) ==
  groupby_with_series(df_height, selected_keys, dtype, FALSE, n_threads, seed, overflow_checks)

\* DataFrame::groupby: select the key columns by name, multithreaded = true
df_groupby(df_height, selected_keys, dtype, n_threads, seed, overflow_checks) ==
  groupby_with_series(df_height, selected_keys, dtype, TRUE, n_threads, seed, overflow_checks)

\* DataFrame::groupby_stable: gb = self.groupby(by)?; gb.groups.sort()
groupby_stable(df_height, selected_keys, dtype, n_threads, seed, overflow_checks) ==
  LET gb == df_groupby(df_height, selected_keys, dtype, n_threads, seed, overflow_checks)
  IN  IF gb.status = "ok" THEN Ok(SortGroups(gb.groups)) ELSE gb

\* ------------------------------------------------------ GroupBy session
\* GroupBy::keys: every key column taken at the first index of each group
gb_keys(selected_keys, grps) ==
  collect([c \in 1 .. Len(selected_keys) |->
             collect([g \in 1 .. Len(grps) |-> selected_keys[c][grps[g][1] + 1]])])

\* take_iter_unchecked: the rows idx of every column of a frame
take(columns, idx) ==
  collect([c \in 1 .. Len(columns) |->
             collect([i \in 1 .. Len(idx) |-> columns[c][idx[i] + 1]])])

\* accumulate_dataframes_vertical: the frames stacked column by column
vstack(dfs, width) ==
  collect([c \in 1 .. width |-> Flatten(collect([j \in 1 .. Len(dfs) |-> dfs[j][c]]))])

\* GroupBy::apply with selected_agg = None and f = Ok: the sub-frame of every
\* group, in the order of the groups, stacked
gb_apply(columns, grps) ==
  vstack(collect([g \in 1 .. Len(grps) |-> take(columns, grps[g][2])]), Len(columns))

\* DataFrame::sort on column c, ascending and stable: the row order
RECURSIVE InsertRow(_, _, _)
InsertRow(order, r, col) ==
  IF order = <<>> THEN <<r>>
  ELSE IF col[r] < col[Head(order)] THEN <<r>> \o order
  ELSE <<Head(order)>> \o InsertRow(Tail(order), r, col)

RECURSIVE SortOrder(_, _)
SortOrder(col, n) == IF n = 0 THEN <<>> ELSE InsertRow(SortOrder(col, n - 1), n, col)

df_sort(columns, c) ==
  LET order == SortOrder(columns[c], Len(columns[c]))
  IN  collect([d \in 1 .. Len(columns) |->
                 collect([i \in 1 .. Len(order) |-> columns[d][order[i]]])])

\* ---------------------------------------------------- aggregation kernels
\* the values of a column at the member rows of a group
members_of(col, idx) == collect([i \in 1 .. Len(idx) |-> col[idx[i] + 1]])

IsValid(v) == v # Null

RECURSIVE sum_values(_)
sum_values(vs) == IF vs = <<>> THEN 0 ELSE Head(vs) + sum_values(Tail(vs))

min_value(S) == CHOOSE x \in S : \A y \in S : x <= y

max_value(S) == CHOOSE x \in S : \A y \in S : y <= x

RECURSIVE Gcd(_, _)
Gcd(a, b) == IF b = 0 THEN a ELSE Gcd(b, a % b)

\* an f64 quotient as a fraction in lowest terms; division by zero of zero
\* has no value
Ratio(n, d) == IF d = 0 THEN <<>> ELSE <<n \div Gcd(n, d), d \div Gcd(n, d)>>

\* min, max: skip nulls; a group of nulls only gives null
agg_min(col, grps) ==
  collect([g \in 1 .. Len(grps) |->
     LET vs == SelectSeq(members_of(col, grps[g][2]), IsValid)
     IN  IF vs = <<>> THEN Null ELSE min_value(Range(vs))])

agg_max(col, grps) ==
  collect([g \in 1 .. Len(grps) |->
     LET vs == SelectSeq(members_of(col, grps[g][2]), IsValid)
     IN  IF vs = <<>> THEN Null ELSE max_value(Range(vs))])

\* sum: skip nulls; nothing to add gives 0
agg_sum(col, grps) ==
  collect([g \in 1 .. Len(grps) |->
     sum_values(SelectSeq(members_of(col, grps[g][2]), IsValid))])

\* mean: skip nulls; the mean of nothing is null
agg_mean(col, grps) ==
  collect([g \in 1 .. Len(grps) |->
     LET vs == SelectSeq(members_of(col, grps[g][2]), IsValid)
     IN  Ratio(sum_values(vs), Len(vs))])

\* first, last: the value at the first row index and at the last member,
\* nulls included
agg_first(col, grps) == collect([g \in 1 .. Len(grps) |-> col[grps[g][1] + 1]])

agg_last(col, grps) ==
  collect([g \in 1 .. Len(grps) |-> col[grps[g][2][Len(grps[g][2])] + 1]])

\* list: the values in the order of the members
agg_list(col, grps) == collect([g \in 1 .. Len(grps) |-> members_of(col, grps[g][2])])

\* count: |members|, nulls included
agg_count(grps) == collect([g \in 1 .. Len(grps) |-> Len(grps[g][2])])

\* the outer kernel of list: the partial lists of the members, concatenated
agg_list_concat(col, grps) ==
  collect([g \in 1 .. Len(grps) |-> Flatten(members_of(col, grps[g][2]))])

\* the quotient of two columns, row by row
div_columns(l, r) == collect([i \in 1 .. Len(l) |-> Ratio(l[i], r[i])])

\* GroupByMethod, the partitionable ones
PartitionableMethods == {"min", "max", "sum", "mean", "first", "last", "list"}

fmt_groupby_column(name, method) ==
  CASE method = "min" -> name \o "_min"
    [] method = "max" -> name \o "_max"
    [] method = "median" -> name \o "_median"
    [] method = "mean" -> name \o "_mean"
    [] method = "first" -> name \o "_first"
    [] method = "last" -> name \o "_last"
    [] method = "sum" -> name \o "_sum"
    [] method = "groups" -> "groups"
    [] method = "n_unique" -> name \o "_n_unique"
    [] method = "count" -> name \o "_count"
    [] method = "list" -> name \o "_agg_list"
    [] method = "std" -> name \o "_agg_std"
    [] method = "var" -> name \o "_agg_var"

\* -------------------------------------------------------------- executors
\* a frame with named columns
Frame(names, cols) == [names |-> names, cols |-> cols]

column(df, name) == df.cols[CHOOSE i \in 1 .. Len(df.names) : df.names[i] = name]

Returned(df, path) == [status |-> "ok", df |-> df, path |-> path]

Raised(why, path) == [status |-> why, df |-> Frame(<<>>, <<>>), path |-> path]

\* AggregationExpr::aggregate: the kernel of the method on the root column
aggregate(method, root, df, grps) ==
  LET col == column(df, root)
  IN  CASE method = "min" -> agg_min(col, grps)
        [] method = "max" -> agg_max(col, grps)
        [] method = "sum" -> agg_sum(col, grps)
        [] method = "mean" -> agg_mean(col, grps)
        [] method = "first" -> agg_first(col, grps)
        [] method = "last" -> agg_last(col, grps)
        [] method = "list" -> agg_list(col, grps)

\* AggregationExpr::evaluate_partitioned: the partial columns of a shard;
\* mean gives two, the sums and the counts
evaluate_partitioned(method, root, df, grps) ==
  LET col == column(df, root)
      new_name == fmt_groupby_column(root, method)
  IN  CASE method = "min" -> Frame(<<new_name>>, <<agg_min(col, grps)>>)
        [] method = "max" -> Frame(<<new_name>>, <<agg_max(col, grps)>>)
        [] method = "sum" -> Frame(<<new_name>>, <<agg_sum(col, grps)>>)
        [] method = "mean" -> Frame(<<new_name, new_name \o "_count">>,
                                    <<agg_sum(col, grps), agg_count(grps)>>)
        [] method = "first" -> Frame(<<new_name>>, <<agg_first(col, grps)>>)
        [] method = "last" -> Frame(<<new_name>>, <<agg_last(col, grps)>>)
        [] method = "list" -> Frame(<<new_name>>, <<agg_list(col, grps)>>)

\* AggregationExpr::evaluate_partitioned_final: the outer kernel on the
\* merged partial columns
evaluate_partitioned_final(method, root, final_df, grps) ==
  LET col == column(final_df, root)
  IN  CASE method = "min" -> agg_min(col, grps)
        [] method = "max" -> agg_max(col, grps)
        [] method = "sum" -> agg_sum(col, grps)
        [] method = "mean" -> div_columns(agg_sum(col, grps),
                                          agg_sum(column(final_df, root \o "_count"), grps))
        [] method = "first" -> agg_first(col, grps)
        [] method = "last" -> agg_last(col, grps)
        [] method = "list" -> agg_list_concat(col, grps)

\* the frame groupby_helper builds from a session: the keys, then one
\* column per aggregation
helper_frame(df, keys, aggs, gb) ==
  IF gb.status # "ok" THEN Raised(gb.status, "plain")
  ELSE Returned(
         Frame(<<df.names[1]>> \o [a \in 1 .. Len(aggs) |-> fmt_groupby_column(aggs[a][2], aggs[a][1])],
               gb_keys(keys, gb.groups)
                 \o [a \in 1 .. Len(aggs) |-> aggregate(aggs[a][1], aggs[a][2], df, gb.groups)]),
         "plain")

\* groupby_helper with apply = None
groupby_helper(df, keys, dtype, aggs, n_threads, seed, overflow_checks) ==
  helper_frame(df, keys, aggs,
               groupby_with_series(Len(df.cols[1]), keys, dtype, TRUE, n_threads, seed,
                                   overflow_checks))

\* columns.extend(agg_columns.flatten().flatten()): the keys, then the
\* partial columns of every aggregation
extend_columns(key_name, key_column, parts) ==
  Frame(<<key_name>> \o Flatten([a \in 1 .. Len(parts) |-> parts[a].names]),
        <<key_column>> \o Flatten([a \in 1 .. Len(parts) |-> parts[a].cols]))

\* the partial frame of one shard from its groups
shard_frame(df, aggs, grps) ==
  extend_columns(df.names[1], gb_keys(<<df.cols[1]>>, grps)[1],
                 collect([a \in 1 .. Len(aggs) |->
                            evaluate_partitioned(aggs[a][1], aggs[a][2], df, grps)]))

\* the closure of run_partititions on one shard: serial discovery, then the
\* partial kernels
partial_frame(df, dtype, aggs, n_threads, seed) ==
  shard_frame(df, aggs,
              groupby_with_series(Len(df.cols[1]), <<df.cols[1]>>, dtype, FALSE, n_threads, seed,
                                  FALSE).groups)

shard_frames(df, dfs, dtype, aggs, n_threads, shard_seeds) ==
  collect([j \in 1 .. n_threads |->
             partial_frame(Frame(df.names, dfs[j]), dtype, aggs, n_threads, shard_seeds[j])])

run_partititions(df, dtype, aggs, n_threads, shard_seeds) ==
  shard_frames(df, split_df(df.cols, n_threads), dtype, aggs, n_threads, shard_seeds)

\* accumulate_dataframes_vertical on the partial frames
merge_frames(dfs) ==
  Frame(dfs[1].names,
        vstack(collect([j \in 1 .. Len(dfs) |-> dfs[j].cols]), Len(dfs[1].names)))

\* an outer reduce that leaves every column the name its outer kernel
\* gives it
outer_frame_unrenamed(merged, aggs, names, gb) ==
  IF gb.status # "ok" THEN Raised(gb.status, "partitioned")
  ELSE Returned(
         Frame(<<merged.names[1]>>
                 \o [a \in 1 .. Len(aggs) |-> fmt_groupby_column(names[a], aggs[a][1])],
               gb_keys(<<merged.cols[1]>>, gb.groups)
                 \o [a \in 1 .. Len(aggs) |->
                       evaluate_partitioned_final(aggs[a][1], names[a], merged, gb.groups)]),
         "partitioned")

\* the outer reduce on the session of the merged frame: the keys, then the
\* outer kernel of every aggregation, renamed
outer_frame(merged, aggs, names, gb) ==
  IF gb.status # "ok" THEN Raised(gb.status, "partitioned")
  ELSE Returned(
         Frame(<<merged.names[1]>> \o names,
               gb_keys(<<merged.cols[1]>>, gb.groups)
                 \o [a \in 1 .. Len(aggs) |->
                       evaluate_partitioned_final(aggs[a][1], names[a], merged, gb.groups)]),
         "partitioned")

\* the merge phase of execute: discover the groups of the merged frame with
\* multithreaded = true, then reduce
outer_reduce(merged, dtype, aggs, n_threads, seed, overflow_checks) ==
  outer_frame(merged, aggs,
              collect([a \in 1 .. Len(aggs) |-> fmt_groupby_column(aggs[a][2], aggs[a][1])]),
              groupby_with_series(Len(merged.cols[1]), <<merged.cols[1]>>, dtype, TRUE,
                                  n_threads, seed, overflow_checks))

\* an estimate that divides by the requested sample size
sample_cardinality_over_size(key, sample_size) ==
  LET offset == Len(key) \div 2
      s == SubSeq(key, offset + 1,
                  IF offset + sample_size < Len(key) THEN offset + sample_size ELSE Len(key))
  IN  <<Cardinality(Range(s)), sample_size>>

\* sample_cardinality: unique values over length of the slice that starts in
\* the middle of the key, as the pair <<unique, length>>
sample_cardinality(key, sample_size) ==
  LET offset == Len(key) \div 2
      s == SubSeq(key, offset + 1,
                  IF offset + sample_size < Len(key) THEN offset + sample_size ELSE Len(key))
  IN  <<Cardinality(Range(s)), Len(s)>>

\* frac >= cardinality_frac
exceeds_or_equal(frac, cardinality_frac) == frac[1] * 100 >= cardinality_frac * frac[2]

\* frac > cardinality_frac on f32, the threshold in hundredths; 0 / 0 is
\* NaN, which is greater than nothing
exceeds(frac, cardinality_frac) == frac[1] * 100 > cardinality_frac * frac[2]

\* the (frac, a) of execute: known from the dictionary of a categorical
\* key, estimated from a sample otherwise
cardinality(key, dtype, env) ==
  IF dtype = "Categorical"
  THEN <<Cardinality(Range(key) \ {Null}), Len(key)>>
  ELSE sample_cardinality(key, env.sample_size)

\* PartitionGroupByExec::execute
execute(df, dtype, aggs, env, n_threads, shard_seeds, seed, overflow_checks) ==
  IF env.no_partition
  THEN groupby_helper(df, <<df.cols[1]>>, dtype, aggs, n_threads, seed, overflow_checks)
  ELSE IF exceeds(cardinality(df.cols[1], dtype, env), env.cardinality_frac)
  THEN groupby_helper(df, <<df.cols[1]>>, dtype, aggs, n_threads, seed, overflow_checks)
  ELSE outer_reduce(merge_frames(run_partititions(df, dtype, aggs, n_threads, shard_seeds)),
                    dtype, aggs, n_threads, seed, overflow_checks)

\* ---------------------------------------------------- kernels that fail
\* An aggregation may name, as its third field, the phase in which its
\* kernel returns Err: "aggregate", "evaluate_partitioned" or
\* "evaluate_partitioned_final".
kernel_fails(plan, a, phase) == Len(plan[a]) >= 3 /\ plan[a][3] = phase

\* .collect::<Result<Vec<_>>>()?: the error of the kernels of a phase, "ok"
\* if none fails
collect_results(plan, phase) ==
  IF \E a \in 1 .. Len(plan) : kernel_fails(plan, a, phase) THEN "ComputeError" ELSE "ok"

\* groupby_helper: let opt_agg = agg_expr.aggregate(&df, groups, state)?
groupby_helper_try(df, keys, dtype, aggs, n_threads, seed, overflow_checks) ==
  LET r == groupby_helper(df, keys, dtype, aggs, n_threads, seed, overflow_checks)
  IN  IF r.status # "ok" THEN r
      ELSE IF collect_results(aggs, "aggregate") # "ok"
      THEN Raised(collect_results(aggs, "aggregate"), "plain")
      ELSE r

\* the outer reduce of execute: evaluate_partitioned_final(..).ok() under
\* filter_map keeps the columns of the kernels that returned Ok
outer_columns(r, aggs) ==
  LET kept == SelectSeq([a \in 1 .. Len(aggs) |-> a],
                        LAMBDA a : ~kernel_fails(aggs, a, "evaluate_partitioned_final"))
  IN  Returned(Frame(<<r.df.names[1]>> \o [i \in 1 .. Len(kept) |-> r.df.names[kept[i] + 1]],
                     <<r.df.cols[1]>> \o [i \in 1 .. Len(kept) |-> r.df.cols[kept[i] + 1]]),
               "partitioned")

\* PartitionGroupByExec::execute with kernels that may fail
execute_try(df, dtype, aggs, env, n_threads, shard_seeds, seed, overflow_checks) ==
  LET r == execute(df, dtype, aggs, env, n_threads, shard_seeds, seed, overflow_checks)
  IN  IF r.path = "plain"
      THEN groupby_helper_try(df, <<df.cols[1]>>, dtype, aggs, n_threads, seed, overflow_checks)
      ELSE IF collect_results(aggs, "evaluate_partitioned") # "ok"
      THEN Raised(collect_results(aggs, "evaluate_partitioned"), "partitioned")
      ELSE IF r.status # "ok" THEN r
      ELSE outer_columns(r, aggs)

\* ------------------------------------------------- eager GroupBy methods
\* Option<T>
None == <<>>

Some(x) == <<x>>

\* a Series: a named, typed column
Series(name, dtype, values) == [name |-> name, dtype |-> dtype, values |-> values]

\* GroupBy::new: the struct that borrows the frame (a Vec<Series>)
GroupBy_new(df, by, groups, selected_agg) ==
  [df |-> df, selected_keys |-> by, groups |-> groups, selected_agg |-> selected_agg]

\* no session bound
NoGroupBy == GroupBy_new(<<>>, <<>>, <<>>, None)

\* GroupBy::select: the selection replaces the one before
select(self, selection) == [self EXCEPT !.selected_agg = Some(selection)]

get_column_names(df) == collect([i \in 1 .. Len(df) |-> df[i].name])

contains(names, a) == \E i \in 1 .. Len(names) : names[i] = a

values_of(series) == collect([i \in 1 .. Len(series) |-> series[i].values])

\* DataFrame::select_series: the columns of the selection, in its order
select_series(df, selection) ==
  IF \A i \in 1 .. Len(selection) : contains(get_column_names(df), selection[i])
  THEN [status |-> "ok",
        cols |-> collect([i \in 1 .. Len(selection) |->
                   df[CHOOSE j \in 1 .. Len(df) : df[j].name = selection[i]]])]
  ELSE [status |-> "NotFound", cols |-> <<>>]

\* GroupBy::keys as Series
keys_of(self) ==
  LET taken == gb_keys(values_of(self.selected_keys), self.groups)
  IN  collect([c \in 1 .. Len(taken) |->
                 Series(self.selected_keys[c].name, self.selected_keys[c].dtype, taken[c])])

\* a selection that keeps the key columns
selection_of_all(self) ==
  IF self.selected_agg # None THEN self.selected_agg[1] ELSE get_column_names(self.df)

\* the selection of prepare_agg: the selected columns or, without a
\* selection, the columns of the frame whose name no key Series has
selection_of(self) ==
  IF self.selected_agg # None THEN self.selected_agg[1]
  ELSE LET by == get_column_names(self.selected_keys)
           not_by(a) == ~contains(by, a)
       IN  SelectSeq(get_column_names(self.df), not_by)

\* GroupBy::prepare_agg: the keys and the columns to aggregate
prepare_agg(self) ==
  LET agg_col == select_series(self.df, selection_of(self))
  IN  [status |-> agg_col.status, keys |-> keys_of(self), agg_cols |-> agg_col.cols]

OkFrame(series) ==
  [status |-> DataFrame_new(values_of(series)),
   df |-> IF DataFrame_new(values_of(series)) = "ok"
          THEN Frame(get_column_names(series), values_of(series)) ELSE Frame(<<>>, <<>>)]

ErrFrame(why) == [status |-> why, df |-> Frame(<<>>, <<>>)]

\* the values of a group that are not null, ascending
RECURSIVE InsertValue(_, _)
InsertValue(vs, v) ==
  IF vs = <<>> THEN <<v>>
  ELSE IF v < Head(vs) THEN <<v>> \o vs
  ELSE <<Head(vs)>> \o InsertValue(Tail(vs), v)

RECURSIVE SortValues(_)
SortValues(vs) == IF vs = <<>> THEN <<>> ELSE InsertValue(SortValues(Tail(vs)), Head(vs))

sorted_valid(col, idx) == SortValues(SelectSeq(members_of(col, idx), IsValid))

\* n_unique: the distinct values, a null counting as one
agg_n_unique(col, grps) ==
  collect([g \in 1 .. Len(grps) |-> Cardinality(Range(members_of(col, grps[g][2])))])

\* median: skip nulls; the median of nothing is null
agg_median(col, grps) ==
  collect([g \in 1 .. Len(grps) |->
     LET vs == sorted_valid(col, grps[g][2])
         n == Len(vs)
     IN  IF n = 0 THEN <<>>
         ELSE IF n % 2 = 1 THEN Ratio(vs[(n + 1) \div 2], 1)
         ELSE Ratio(vs[n \div 2] + vs[n \div 2 + 1], 2)])

\* quantile (in hundredths): nearest rank on the sorted valid values, the
\* lower index on a tie
agg_quantile(col, grps, quantile) ==
  collect([g \in 1 .. Len(grps) |->
     LET vs == sorted_valid(col, grps[g][2])
         n == Len(vs)
     IN  IF n = 0 THEN <<>>
         ELSE Ratio(vs[(2 * quantile * (n - 1) + 99) \div 200 + 1], 1)])

square(v) == v * v

squares(vs) == collect([i \in 1 .. Len(vs) |-> square(vs[i])])

\* var: the sample variance; fewer than two values give null
agg_var(col, grps) ==
  collect([g \in 1 .. Len(grps) |->
     LET vs == sorted_valid(col, grps[g][2])
         n == Len(vs)
     IN  IF n < 2 THEN <<>>
         ELSE Ratio(n * sum_values(squares(vs)) - square(sum_values(vs)), n * (n - 1))])

\* std: the root of the variance, kept as the variance under a root sign
agg_std(col, grps) ==
  LET var == agg_var(col, grps)
  IN  collect([g \in 1 .. Len(grps) |-> IF var[g] = <<>> THEN <<>> ELSE <<var[g]>>])

Numeric == {"Int", "Float"}

\* the kernels a dtype has: the others return None
has_kernel(method, dtype) ==
  CASE method \in {"sum", "mean", "median", "var", "std", "quantile"} -> dtype \in Numeric
    [] method \in {"min", "max"} -> dtype \in Numeric \cup {"Bool", "Utf8", "Date"}
    [] method = "n_unique" -> dtype \notin {"Float", "List", "Object"}
    [] OTHER -> TRUE

\* the kernel of a method on a Series: None, or the values of the result
kernel(method, s, grps) ==
  IF ~has_kernel(method, s.dtype) THEN None
  ELSE Some(CASE method = "min" -> agg_min(s.values, grps)
              [] method = "max" -> agg_max(s.values, grps)
              [] method = "mean" -> agg_mean(s.values, grps)
              [] method = "sum" -> agg_sum(s.values, grps)
              [] method = "first" -> agg_first(s.values, grps)
              [] method = "last" -> agg_last(s.values, grps)
              [] method = "n_unique" -> agg_n_unique(s.values, grps)
              [] method = "median" -> agg_median(s.values, grps)
              [] method = "var" -> agg_var(s.values, grps)
              [] method = "std" -> agg_std(s.values, grps)
              [] method = "list" -> agg_list(s.values, grps)
              [] method = "count" -> agg_count(grps))

\* the dtype of the result of a method
agg_dtype(method, dtype) ==
  CASE method \in {"mean", "median", "var", "std", "quantile"} -> "Float"
    [] method \in {"n_unique", "count"} -> "UInt32"
    [] method = "list" -> "List"
    [] OTHER -> dtype

\* a loop body that pushes a column of nulls where the kernel returns None
push_agg_null_filled(method, agg_col, grps) ==
  LET new_name == fmt_groupby_column(agg_col.name, method)
      opt_agg == kernel(method, agg_col, grps)
  IN  <<Series(new_name, agg_dtype(method, agg_col.dtype),
               IF opt_agg = None THEN collect([g \in 1 .. Len(grps) |-> Null])
               ELSE opt_agg[1])>>

\* if let Some(mut agg) = opt_agg { agg.rename(&new_name); cols.push(agg) }
push_agg(method, agg_col, grps) ==
  LET new_name == fmt_groupby_column(agg_col.name, method)
      opt_agg == kernel(method, agg_col, grps)
  IN  IF opt_agg = None THEN <<>>
      ELSE <<Series(new_name, agg_dtype(method, agg_col.dtype), opt_agg[1])>>

\* the columns a method pushes: one per column whose kernel returns Some
RECURSIVE push_aggs(_, _, _)
push_aggs(method, agg_cols, grps) ==
  IF agg_cols = <<>> THEN <<>>
  ELSE push_agg(method, Head(agg_cols), grps) \o push_aggs(method, Tail(agg_cols), grps)

\* a reduction that fails on a column whose kernel returns None
reduce_strict(self, method) ==
  LET p == prepare_agg(self)
  IN  IF p.status # "ok" THEN ErrFrame(p.status)
      ELSE IF \E i \in 1 .. Len(p.agg_cols) : kernel(method, p.agg_cols[i], self.groups) = None
      THEN ErrFrame("UnsupportedAggregation: " \o method)
      ELSE OkFrame(p.keys \o push_aggs(method, p.agg_cols, self.groups))

\* GroupBy::mean, sum, min, max, first, last, n_unique, median, var, std,
\* count, agg_list: the keys, then the aggregated columns
reduce(self, method) ==
  LET p == prepare_agg(self)
  IN  IF p.status # "ok" THEN ErrFrame(p.status)
      ELSE OkFrame(p.keys \o push_aggs(method, p.agg_cols, self.groups))

Digit(d) ==
  CASE d = 0 -> "0" [] d = 1 -> "1" [] d = 2 -> "2" [] d = 3 -> "3" [] d = 4 -> "4"
    [] d = 5 -> "5" [] d = 6 -> "6" [] d = 7 -> "7" [] d = 8 -> "8" [] d = 9 -> "9"

\* format!("{:.2}", quantile) of a quantile given in hundredths, below ten
fmt_2(quantile) ==
  LET q == IF quantile < 0 THEN 0 - quantile ELSE quantile
  IN  (IF quantile < 0 THEN "-" ELSE "")
      \o Digit(q \div 100) \o "." \o Digit((q \div 10) % 10) \o Digit(q % 10)

\* fmt_groupby_column for GroupByMethod::Quantile(quantile)
fmt_groupby_quantile(name, quantile) == name \o "_quantile_" \o fmt_2(quantile)

RECURSIVE push_quantiles(_, _, _)
push_quantiles(quantile, agg_cols, grps) ==
  IF agg_cols = <<>> THEN <<>>
  ELSE LET agg_col == Head(agg_cols)
           new_name == fmt_groupby_quantile(agg_col.name, quantile)
       IN  (IF ~has_kernel("quantile", agg_col.dtype) THEN <<>>
            ELSE <<Series(new_name, "Float", agg_quantile(agg_col.values, grps, quantile))>>)
           \o push_quantiles(quantile, Tail(agg_cols), grps)

\* GroupBy::quantile, the quantile in hundredths
gb_quantile(self, q) ==
  IF ~(0 <= q /\ q <= 100) THEN ErrFrame("Other: quantile should be within 0.0 and 1.0")
  ELSE LET p == prepare_agg(self)
       IN  IF p.status # "ok" THEN ErrFrame(p.status)
           ELSE OkFrame(p.keys \o push_quantiles(q, p.agg_cols, self.groups))

\* GroupBy::groups: the keys and the member indices of every group
gb_groups(self) ==
  OkFrame(keys_of(self)
          \o <<Series(fmt_groupby_column("", "groups"), "List",
                      collect([g \in 1 .. Len(self.groups) |-> self.groups[g][2]]))>>)

\* the map of GroupBy::agg: the aggregations of a column, the last entry
\* of a column replacing the ones before
RECURSIVE map_get(_, _)
map_get(column_to_agg, name) ==
  IF column_to_agg = <<>> THEN None
  ELSE LET last == column_to_agg[Len(column_to_agg)]
       IN  IF last[1] = name THEN Some(last[2])
           ELSE map_get(SubSeq(column_to_agg, 1, Len(column_to_agg) - 1), name)

\* one arm of the match of GroupBy::agg
agg_arm(self, agg_col, aggregation_f) ==
  LET new_name == agg_col.name \o "_" \o aggregation_f
  IN  IF aggregation_f \in {"min", "max", "mean", "sum", "n_unique", "median", "std", "var"}
      THEN LET opt_agg == kernel(aggregation_f, agg_col, self.groups)
           IN  [status |-> "ok",
                cols |-> IF opt_agg = None THEN <<>>
                         ELSE <<Series(new_name, agg_dtype(aggregation_f, agg_col.dtype),
                                       opt_agg[1])>>]
      ELSE IF aggregation_f \in {"first", "last"}
      THEN [status |-> "ok",
            cols |-> <<Series(new_name, agg_col.dtype,
                              kernel(aggregation_f, agg_col, self.groups)[1])>>]
      ELSE IF aggregation_f = "count"
      THEN [status |-> "ok", cols |-> <<Series(new_name, "UInt32", agg_count(self.groups))>>]
      ELSE [status |-> "panic: aggregation: " \o aggregation_f \o " is not supported",
            cols |-> <<>>]

\* the aggregations of one column, until one panics
RECURSIVE agg_arms(_, _, _)
agg_arms(self, agg_col, aggregations) ==
  IF aggregations = <<>> THEN [status |-> "ok", cols |-> <<>>]
  ELSE LET arm == agg_arm(self, agg_col, Head(aggregations))
           rest == agg_arms(self, agg_col, Tail(aggregations))
       IN  IF arm.status # "ok" THEN arm
           ELSE IF rest.status # "ok" THEN rest
           ELSE [status |-> "ok", cols |-> arm.cols \o rest.cols]

\* the loop of GroupBy::agg over the columns to aggregate: a column the
\* map does not hold is skipped
RECURSIVE agg_loop(_, _, _)
agg_loop(self, agg_cols, column_to_agg) ==
  IF agg_cols = <<>> THEN [status |-> "ok", cols |-> <<>>]
  ELSE LET aggregations == map_get(column_to_agg, Head(agg_cols).name)
           here == IF aggregations = None THEN [status |-> "ok", cols |-> <<>>]
                   ELSE agg_arms(self, Head(agg_cols), aggregations[1])
           rest == agg_loop(self, Tail(agg_cols), column_to_agg)
       IN  IF here.status # "ok" THEN here
           ELSE IF rest.status # "ok" THEN rest
           ELSE [status |-> "ok", cols |-> here.cols \o rest.cols]

\* GroupBy::agg
agg(self, column_to_agg) ==
  LET p == prepare_agg(self)
  IN  IF p.status # "ok" THEN ErrFrame(p.status)
      ELSE LET r == agg_loop(self, p.agg_cols, column_to_agg)
           IN  IF r.status # "ok" THEN ErrFrame(r.status) ELSE OkFrame(p.keys \o r.cols)

\* finish_groupby of the Python binding
finish_groupby(self, token) ==
  IF token \in {"min", "max", "mean", "first", "last", "sum", "count", "n_unique", "median",
                "std", "var"}
  THEN reduce(self, token)
  ELSE IF token = "agg_list" THEN reduce(self, "list")
  ELSE IF token = "groups" THEN gb_groups(self)
  ELSE ErrFrame("Other: agg fn " \o token \o " does not exists")

\* DefaultPlanner::create_physical_expr for AAggExpr::Quantile in the
\* aggregation context: the expression is built whatever the quantile
create_physical_expr_quantile(quantile) == [status |-> "ok", expr |-> <<"quantile", quantile>>]

\* ------------------------------------------------------------ the planner
\* AExpr trees: a node is a tuple of its kind and its inputs
Col(name) == <<"column", name>>

Lit == <<"literal">>

AggOf(method, e) == <<"agg", method, e>>

Binary(l, r) == <<"binary", l, r>>

Ternary(p, t, f) == <<"ternary", p, t, f>>

SortBy(e, by_e) == <<"sort_by", e, by_e>>

Filter(e, by_e) == <<"filter", e, by_e>>

Udf(e) == <<"udf", e>>

\* the inputs of a node
inputs(e) ==
  CASE e[1] \in {"column", "literal"} -> <<>>
    [] e[1] = "agg" -> <<e[3]>>
    [] e[1] = "udf" -> <<e[2]>>
    [] e[1] \in {"binary", "sort_by", "filter"} -> <<e[2], e[3]>>
    [] e[1] = "ternary" -> <<e[2], e[3], e[4]>>

\* aexpr_to_root_nodes: the column nodes of the tree
RECURSIVE aexpr_to_root_nodes(_)
aexpr_to_root_nodes(e) ==
  IF e[1] = "column" THEN <<e>>
  ELSE Flatten(collect([i \in 1 .. Len(inputs(e)) |-> aexpr_to_root_nodes(inputs(e)[i])]))

\* has_aexpr: some node of the tree is of one of the kinds
RECURSIVE has_aexpr(_, _)
has_aexpr(e, kinds) ==
  e[1] \in kinds \/ \E i \in 1 .. Len(inputs(e)) : has_aexpr(inputs(e)[i], kinds)

\* the body of the loop over the aggregations: FALSE where the code sets
\* partitionable = false
agg_partitionable(agg_e) ==
  /\ ~(Len(aexpr_to_root_nodes(agg_e)) # 1 \/ has_aexpr(agg_e, {"sort_by", "filter"}))
  /\ agg_e[1] = "agg" /\ agg_e[2] \in PartitionableMethods

\* the aggregation loop with the count of a group taken as partitionable
partitionable_with_count(node) ==
  /\ Len(node.keys) = 1
  /\ \A i \in 1 .. Len(node.aggs) :
        agg_partitionable(node.aggs[i])
        \/ (node.aggs[i][1] = "agg" /\ node.aggs[i][2] = "count")
  /\ node.apply = None

\* the flag of create_initial_physical_plan for an Aggregate node
partitionable(node) ==
  /\ Len(node.keys) = 1
  /\ \A i \in 1 .. Len(node.aggs) : agg_partitionable(node.aggs[i])
  /\ node.apply = None

\* create_initial_physical_plan for an Aggregate node: the executor
create_initial_physical_plan(node) ==
  IF partitionable(node) THEN "PartitionGroupByExec" ELSE "GroupByExec"

\* ----------------------------------------------------------------- state
VARIABLES
  df_keys,        \* the frame's key columns: <<k1>> or <<k1, k2>>
  df_vals,        \* the frame's value column
  n_threads,      \* num_cpus::get()
  op,             \* the operation that produced the current result
  by,             \* the key Series of the call
  key_dtype,      \* dtype of the first key Series of the call
  multithreaded,  \* the flag of the call
  seed,           \* the RandomState drawn by the call
  status,         \* "ok", an error kind, or "panic"
  groups,         \* the GroupTuples of the session
  out,            \* the frame an aggregation or apply returned
  env,            \* the environment variables of the process
  aggs,           \* the aggregations of the executor: <<method, root column>>
  path,           \* the path the executor took: "plain" or "partitioned"
  gb              \* the GroupBy struct of an eager aggregation

vars == <<df_keys, df_vals, n_threads, op, by, key_dtype, multithreaded, seed, status, groups, out,
          env, aggs, path, gb>>

\* std::env::var(..).unwrap_or(default): the threshold in hundredths
DEFAULT_CARDINALITY_FRAC == 10
DEFAULT_SAMPLE_SIZE == 1250

\* no variable set
DefaultEnv ==
  [no_partition |-> FALSE, cardinality_frac |-> DEFAULT_CARDINALITY_FRAC,
   sample_size |-> DEFAULT_SAMPLE_SIZE]

df_height == Len(df_vals)

ZeroSeed == [k \in KeyVals |-> 0]

OneKeyFrames == {<<k1>> : k1 \in SeqsUpTo(KeyVals, MaxRows)}

TwoKeyFrames ==
  {f \in {<<k1, k2>> : k1 \in SeqsUpTo(Key1of2Vals, MaxRows),
                       k2 \in SeqsUpTo(Key2of2Vals, MaxRows)} : Len(f[1]) = Len(f[2])}

\* frames with one or two key columns and a value column that numbers the
\* rows
Init ==
  /\ df_keys \in OneKeyFrames \cup TwoKeyFrames
  /\ df_vals = [i \in 1 .. Len(df_keys[1]) |-> i]
  /\ n_threads \in 1 .. MaxThreads
  /\ op = "new"
  /\ by = <<>>
  /\ key_dtype = "Int"
  /\ multithreaded = FALSE
  /\ seed = ZeroSeed
  /\ status = "ok"
  /\ groups = <<>>
  /\ out = Frame(<<>>, <<>>)
  /\ env = DefaultEnv
  /\ aggs = <<>>
  /\ path = "none"
  /\ gb = NoGroupBy

Call(name, keys, dtype, mt, sd, r) ==
  /\ op' = name
  /\ by' = keys
  /\ key_dtype' = dtype
  /\ multithreaded' = mt
  /\ seed' = sd
  /\ status' = r.status
  /\ groups' = r.groups
  /\ out' = Frame(<<>>, <<>>)
  /\ UNCHANGED <<df_keys, df_vals, n_threads, env, aggs, path, gb>>

\* the key selection by column name: every key column of the frame
Selections == {df_keys}

\* the seeds of a call, up to the hashes of payloads its keys do not hold
SeedsFor(keys) ==
  {sd \in Seeds : \A k \in KeyVals :
      (\A c \in 1 .. Len(keys) : k \notin Range(keys[c])) => sd[k] = 0}

\* the builds that differ on a call: with and without overflow checks when
\* a partition predicate of the call overflows, else one
BuildsFor(keys, mt, sd) ==
  IF /\ Len(keys) = 1 /\ mt /\ group_multithreaded(keys[1])
     /\ groupby_threaded_overflows(split_ca(keys[1], n_threads), sd)
  THEN BOOLEAN ELSE {FALSE}

GroupbyWithSeries ==
  /\ op = "new"
  /\ \E keys \in Selections, mt \in BOOLEAN :
       \E sd \in SeedsFor(keys) : \E oc \in BuildsFor(keys, mt, sd) :
          Call("groupby_with_series", keys, "Int", mt, sd,
               groupby_with_series(df_height, keys, "Int", mt, n_threads, sd, oc))

Groupby ==
  /\ op = "new"
  /\ \E keys \in Selections :
       \E sd \in SeedsFor(keys) : \E oc \in BuildsFor(keys, TRUE, sd) :
          Call("groupby", keys, "Int", TRUE, sd,
               df_groupby(df_height, keys, "Int", n_threads, sd, oc))

GroupbyStable ==
  /\ op = "new"
  /\ \E keys \in Selections :
       \E sd \in SeedsFor(keys) : \E oc \in BuildsFor(keys, TRUE, sd) :
          Call("groupby_stable", keys, "Int", TRUE, sd,
               groupby_stable(df_height, keys, "Int", n_threads, sd, oc))

\* test_groupby_threaded: the sharded discovery called on the shards of
\* the first key column
GroupbyThreadedFlat ==
  /\ op = "new"
  /\ Len(df_keys) = 1
  /\ \E sd \in SeedsFor(<<df_keys[1]>>), oc \in BOOLEAN :
       LET splitted == split_ca(df_keys[1], n_threads)
       IN  /\ oc => groupby_threaded_overflows(splitted, sd)
           /\ Call("groupby_threaded_flat", <<df_keys[1]>>, "Int", TRUE, sd,
                   IF oc
                   THEN Failed("panic: attempt to add with overflow")
                   ELSE Ok(groupby_threaded_flat(splitted, sd)))

\* the frame's columns: the key columns, then the value column
df_columns == df_keys \o <<df_vals>>

df_names == IF Len(df_keys) = 1 THEN <<"k", "v">> ELSE <<"k", "k2", "v">>

\* df.groupby(keys)?.apply(Ok) on the session a group_by call returned
Apply ==
  /\ op = "groupby"
  /\ status = "ok"
  /\ op' = "apply"
  /\ out' = Frame(df_names, gb_apply(df_columns, groups))
  /\ UNCHANGED <<df_keys, df_vals, n_threads, by, key_dtype, multithreaded, seed, status, groups,
                 env, aggs, path, gb>>

Next == GroupbyWithSeries \/ Groupby \/ GroupbyStable \/ GroupbyThreadedFlat \/ Apply

\* ---- key validation: key Series of any dtype and of any length
\* a Series one row shorter, or one row longer, than column c
Shorter(c) == SubSeq(c, 1, Len(c) - 1)

Longer(c) == Append(c, 0)

Variants(c) == {c, Longer(c)} \cup (IF c = <<>> THEN {} ELSE {Shorter(c)})

KeyLists ==
  {<<>>} \cup {<<a>> : a \in Variants(df_keys[1])}
         \cup {<<a, b>> : a \in Variants(df_keys[1]), b \in Variants(df_keys[2])}
         \cup {<<df_keys[1], df_keys[2], c>> : c \in Variants(df_keys[1])}

\* a seed whose hashes stay clear of the top of the hash range
LowSeed == [k \in KeyVals |-> 0]

GroupbyWithKeys ==
  /\ op = "new"
  /\ Len(df_keys) = 2
  /\ \E keys \in KeyLists, dt \in DTypes, mt \in BOOLEAN :
       Call("groupby_with_series", keys, dt, mt, LowSeed,
            groupby_with_series(df_height, keys, dt, mt, n_threads, LowSeed, TRUE))

NextKeys == GroupbyWithKeys

SpecKeys == Init /\ [][NextKeys]_vars

\* ---- the executors of an aggregation on a frame of one key column k and
\* one value column v
ExecKeyVals == {0, 1}
ExecVals == {1, 2, Null}

\* the environments: nothing set, NO_PARTITION set, the threshold set to 1.0
Envs ==
  {DefaultEnv, [DefaultEnv EXCEPT !.no_partition = TRUE],
   [DefaultEnv EXCEPT !.cardinality_frac = 100]}

InitExec ==
  /\ df_keys \in {<<k>> : k \in SeqsUpTo(ExecKeyVals, MaxRows)}
  /\ df_vals \in {v \in SeqsUpTo(ExecVals, MaxRows) : Len(v) = Len(df_keys[1])}
  /\ n_threads \in 1 .. MaxThreads
  /\ op = "new"
  /\ by = <<>>
  /\ key_dtype = "Int"
  /\ multithreaded = FALSE
  /\ seed = ZeroSeed
  /\ status = "ok"
  /\ groups = <<>>
  /\ out = Frame(<<>>, <<>>)
  /\ env \in Envs
  /\ aggs = <<>>
  /\ path = "none"
  /\ gb = NoGroupBy

\* seeds whose hashes lie at the two ends of the hash range: equal hashes,
\* key 0 before key 1, key 1 before key 0
ExecSeeds ==
  {sd \in Seeds : sd[Null] = 0 /\ sd[0] * sd[1] = 0
                  /\ \A k \in ExecKeyVals : sd[k] \in {0, HashMod - 1}}

\* the seeds of the shards: each shard draws its own, and a serial discovery
\* depends on it for the order of its groups only
ShardSeeds == {sd \in ExecSeeds : sd[0] # sd[1]}

\* the builds that differ on a call of the executor: with and without
\* overflow checks when the seed can overflow a partition predicate
ExecBuilds(sd) ==
  IF \E k \in ExecKeyVals : u64_add_overflows(sd[k], n_threads - 1) THEN BOOLEAN ELSE {FALSE}

ShardSeedsFor(dt) ==
  IF env.no_partition \/ exceeds(cardinality(df_keys[1], dt, env), env.cardinality_frac)
  THEN {[j \in 1 .. n_threads |-> ZeroSeed]}
  ELSE [1 .. n_threads -> ShardSeeds]

Executed(name, dt, plan, sd, r) ==
  /\ op' = name
  /\ by' = <<df_keys[1]>>
  /\ key_dtype' = dt
  /\ multithreaded' = TRUE
  /\ seed' = sd
  /\ status' = r.status
  /\ groups' = <<>>
  /\ out' = r.df
  /\ aggs' = plan
  /\ path' = r.path
  /\ UNCHANGED <<df_keys, df_vals, n_threads, env, gb>>

\* PartitionGroupByExec::execute on the frame, for one aggregation of v
Execute ==
  /\ op = "new"
  /\ \E method \in PartitionableMethods, dt \in {"Int", "Categorical"}, sd \in ExecSeeds :
       \E ss \in ShardSeedsFor(dt), oc \in ExecBuilds(sd) :
          Executed("execute", dt, <<<<method, "v">>>>, sd,
                   execute(Frame(df_names, df_columns), dt, <<<<method, "v">>>>, env, n_threads,
                           ss, sd, oc))

\* GroupByExec::execute with apply = None
ExecutePlain ==
  /\ op = "new"
  /\ \E method \in PartitionableMethods, dt \in {"Int"}, sd \in ExecSeeds :
       \E oc \in ExecBuilds(sd) :
       Executed("execute_plain", dt, <<<<method, "v">>>>, sd,
                groupby_helper(Frame(df_names, df_columns), <<df_keys[1]>>, dt,
                               <<<<method, "v">>>>, n_threads, sd, oc))

NextExec == Execute \/ ExecutePlain

SpecExec == InitExec /\ [][NextExec]_vars

\* ---- the eager methods of a GroupBy on a frame of a key column k, a
\* nullable integer column v and a column s without a sum
v_cell(i) == CASE i % 3 = 1 -> 1 [] i % 3 = 2 -> Null [] OTHER -> 0

s_cell(i) == i % 2

AggOrders == {<<"k", "v", "s">>, <<"v", "k", "s">>, <<"s", "v", "k">>}

AggFrame(k, order, s_dtype) ==
  collect([c \in 1 .. Len(order) |->
     CASE order[c] = "k" -> Series("k", "Int", k)
       [] order[c] = "v" -> Series("v", "Int", collect([i \in 1 .. Len(k) |-> v_cell(i)]))
       [] order[c] = "s" -> Series("s", s_dtype, collect([i \in 1 .. Len(k) |-> s_cell(i)]))])

InitAgg ==
  /\ df_keys \in OneKeyFrames
  /\ df_vals = collect([i \in 1 .. Len(df_keys[1]) |-> v_cell(i)])
  /\ n_threads \in 1 .. MaxThreads
  /\ op = "new"
  /\ by = <<>>
  /\ key_dtype = "Int"
  /\ multithreaded = FALSE
  /\ seed = ZeroSeed
  /\ status = "ok"
  /\ groups = <<>>
  /\ out = Frame(<<>>, <<>>)
  /\ env = DefaultEnv
  /\ aggs = <<>>
  /\ path = "none"
  /\ gb \in {GroupBy_new(AggFrame(df_keys[1], order, s_dtype), <<>>, <<>>, None) :
               order \in AggOrders, s_dtype \in {"Utf8", "Float"}}

\* the key selections by name
KeyNames == {<<"k">>, <<"k", "v">>}

\* the seeds of a session: every key of the call hashed to the bottom, or
\* every key hashed to the top, of the hash range
AggSeeds(ks) ==
  {sd \in SeedsFor(ks) : \E h \in {0, HashMod - 1} : \A k \in KeyVals : sd[k] \in {0, h}
                          /\ ((\E c \in 1 .. Len(ks) : k \in Range(ks[c])) => sd[k] = h)}

\* df.groupby(names): the session, or the failure of the discovery
AggGroupby ==
  /\ op = "new"
  /\ \E names \in KeyNames :
       LET sel == select_series(gb.df, names).cols
           ks == values_of(sel)
       IN  \E sd \in AggSeeds(ks) : \E oc \in BuildsFor(ks, TRUE, sd) :
              LET r == df_groupby(df_height, ks, "Int", n_threads, sd, oc)
              IN  /\ op' = "groupby"
                  /\ by' = ks
                  /\ multithreaded' = TRUE
                  /\ seed' = sd
                  /\ status' = r.status
                  /\ groups' = r.groups
                  /\ gb' = IF r.status = "ok" THEN GroupBy_new(gb.df, sel, r.groups, None) ELSE gb
  /\ UNCHANGED <<df_keys, df_vals, n_threads, key_dtype, out, env, aggs, path>>

AggSelections == {<<"v">>, <<"s", "v">>, <<"k">>, <<"x">>}

Bound == op \in {"groupby", "select"} /\ status = "ok"

\* gb.select(selection)
Select ==
  /\ Bound
  /\ \E selection \in AggSelections : gb' = select(gb, selection)
  /\ op' = "select"
  /\ UNCHANGED <<df_keys, df_vals, n_threads, by, key_dtype, multithreaded, seed, status, groups,
                 out, env, aggs, path>>

\* a method of the session returned r for the request
Method(name, request, r) ==
  /\ op' = name
  /\ aggs' = request
  /\ status' = r.status
  /\ out' = r.df
  /\ UNCHANGED <<df_keys, df_vals, n_threads, by, key_dtype, multithreaded, seed, groups, env,
                 path, gb>>

ReduceMethods ==
  {"min", "max", "mean", "sum", "first", "last", "n_unique", "median", "var", "std", "count",
   "list"}

\* gb.mean(), gb.sum(), ...
Reduce ==
  /\ Bound
  /\ \E method \in ReduceMethods : Method(method, <<method>>, reduce(gb, method))

\* quantiles in hundredths, in and out of range
Quantiles == {0 - 1, 0, 50, 100, 101}

\* gb.quantile(q)
Quantile ==
  /\ Bound
  /\ \E q \in Quantiles : Method("quantile", <<q>>, gb_quantile(gb, q))

Requests ==
  {<<<<"v", <<"sum">>>>>>,
   <<<<"v", <<"min", "foo">>>>>>,
   <<<<"s", <<"list">>>>>>,
   <<<<"k", <<"foo">>>>>>,
   <<<<"v", <<"count", "std">>>>, <<"s", <<"first", "n_unique">>>>>>}

\* gb.agg(column_to_agg)
Agg ==
  /\ Bound
  /\ \E column_to_agg \in Requests : Method("agg", column_to_agg, agg(gb, column_to_agg))

DriverTokens == {"sum", "agg_list", "groups", "list", "foo"}

\* finish_groupby(gb, token)
FinishGroupby ==
  /\ Bound
  /\ \E token \in DriverTokens : Method("finish_groupby", <<token>>, finish_groupby(gb, token))

\* the planner building the physical expression of an Agg Quantile node
CreatePhysicalExprQuantile ==
  /\ op = "new"
  /\ \E q \in Quantiles :
       Method("create_physical_expr", <<q>>,
              [status |-> create_physical_expr_quantile(q).status, df |-> Frame(<<>>, <<>>)])

NextAgg ==
  AggGroupby \/ Select \/ Reduce \/ Quantile \/ Agg \/ FinishGroupby \/ CreatePhysicalExprQuantile

SpecAgg == InitAgg /\ [][NextAgg]_vars

\* ---- the planner on an Aggregate node
Aggregate(ks, as, apply) == [keys |-> ks, aggs |-> as, apply |-> apply]

\* the kernels of an aggregation expression
AggMethods ==
  PartitionableMethods \cup {"median", "quantile", "std", "var", "n_unique", "count", "groups"}

PlanExprs ==
  {AggOf(m, Col("v")) : m \in AggMethods}
    \cup {AggOf("sum", e) : e \in {Lit, Binary(Col("v"), Lit), Binary(Col("v"), Col("w")),
                                    Ternary(Col("v"), Lit, Lit), Ternary(Lit, Col("v"), Col("w")),
                                    SortBy(Col("v"), Lit), SortBy(Col("v"), Col("w")),
                                    Filter(Col("v"), Lit), Udf(Col("v")),
                                    AggOf("max", Col("v"))}}
    \cup {Col("v"), Binary(AggOf("sum", Col("v")), Lit), Udf(AggOf("min", Col("v"))),
          AggOf("first", Filter(Col("v"), Binary(Col("v"), Lit)))}

MaxAggs == 2

PlanNodes ==
  {Aggregate(ks, as, apply) :
     ks \in {<<>>, <<Col("k")>>, <<Col("k"), Col("k2")>>},
     as \in SeqsUpTo(PlanExprs, MaxAggs),
     apply \in {None, Some("apply")}}

InitPlan ==
  /\ df_keys = <<<<>>>>
  /\ df_vals = <<>>
  /\ n_threads = 1
  /\ op = "new"
  /\ by = <<>>
  /\ key_dtype = "Int"
  /\ multithreaded = FALSE
  /\ seed = ZeroSeed
  /\ status = "ok"
  /\ groups = <<>>
  /\ out = Frame(<<>>, <<>>)
  /\ env = DefaultEnv
  /\ aggs \in PlanNodes
  /\ path = "none"
  /\ gb = NoGroupBy

\* DefaultPlanner::create_initial_physical_plan on the node
CreateInitialPhysicalPlan ==
  /\ op = "new"
  /\ op' = "create_initial_physical_plan"
  /\ path' = create_initial_physical_plan(aggs)
  /\ UNCHANGED <<df_keys, df_vals, n_threads, by, key_dtype, multithreaded, seed, status, groups,
                 out, env, aggs, gb>>

NextPlan == CreateInitialPhysicalPlan

SpecPlan == InitPlan /\ [][NextPlan]_vars

\* ------------------------------------------------ environment variables
\* a variable of the process environment: unset, a string, or bytes that
\* are not Unicode
Unset == [set |-> FALSE, unicode |-> FALSE, value |-> ""]

Str(s) == [set |-> TRUE, unicode |-> TRUE, value |-> s]

NotUnicode == [set |-> TRUE, unicode |-> FALSE, value |-> ""]

\* a reading that takes the empty string for unset
env_var_nonempty(environ, name) ==
  IF environ[name].set /\ environ[name].unicode /\ environ[name].value # ""
  THEN Some(environ[name].value) ELSE None

\* std::env::var(name): the value of a variable that is set to Unicode, an
\* Err otherwise
env_var(environ, name) ==
  IF environ[name].set /\ environ[name].unicode THEN Some(environ[name].value) ELSE None

\* str::parse::<f32>, the value in hundredths
parse_f32(s) ==
  CASE s = "0.1" -> Some(10)
    [] s = "0.5" -> Some(50)
    [] s = "1.0" -> Some(100)
    [] s = "1" -> Some(100)
    [] OTHER -> None

\* str::parse::<usize>
parse_usize(s) ==
  CASE s = "1" -> Some(1)
    [] s = "2" -> Some(2)
    [] s = "1250" -> Some(1250)
    [] OTHER -> None

\* PartitionGroupByExec::execute, the environment read as the code reads it
execute_environ(frame, dtype, plan, environ, threads, shard_seeds, sd, overflow_checks) ==
  IF env_var(environ, "POLARS_NO_PARTITION") # None
  THEN execute(frame, dtype, plan, [DefaultEnv EXCEPT !.no_partition = TRUE], threads,
               shard_seeds, sd, overflow_checks)
  ELSE LET frac_var == env_var(environ, "POLARS_PARTITION_CARDINALITY_FRAC")
           size_var == env_var(environ, "POLARS_PARTITION_SAMPLE_SIZE")
       IN  IF frac_var # None /\ parse_f32(frac_var[1]) = None
           THEN Raised("panic: called Result::unwrap() on an Err value", "none")
           ELSE IF dtype # "Categorical" /\ size_var # None /\ parse_usize(size_var[1]) = None
           THEN Raised("panic: called Result::unwrap() on an Err value", "none")
           ELSE execute(frame, dtype, plan,
                        [no_partition |-> FALSE,
                         cardinality_frac |-> IF frac_var = None THEN DEFAULT_CARDINALITY_FRAC
                                              ELSE parse_f32(frac_var[1])[1],
                         sample_size |-> IF size_var = None THEN DEFAULT_SAMPLE_SIZE
                                         ELSE parse_usize(size_var[1])[1]],
                        threads, shard_seeds, sd, overflow_checks)

\* ---- the partitioned executor under the environment of the process
EnvNames ==
  {"POLARS_NO_PARTITION", "NO_PARTITION", "POLARS_PARTITION_CARDINALITY_FRAC",
   "PARTITION_CARDINALITY_FRAC", "POLARS_PARTITION_SAMPLE_SIZE"}

Environs ==
  {e \in [EnvNames -> {Unset, NotUnicode, Str(""), Str("1"), Str("0.5"), Str("1.0"), Str("abc")}] :
     /\ e["POLARS_NO_PARTITION"] \in {Unset, NotUnicode, Str(""), Str("1")}
     /\ e["NO_PARTITION"] \in {Unset, Str("1")}
     /\ e["POLARS_PARTITION_CARDINALITY_FRAC"] \in {Unset, NotUnicode, Str("0.5"), Str("1.0"), Str("abc")}
     /\ e["PARTITION_CARDINALITY_FRAC"] \in {Unset, Str("1.0")}
     /\ e["POLARS_PARTITION_SAMPLE_SIZE"] \in {Unset, Str("1")}}

InitEnviron ==
  /\ df_keys \in {<<k>> : k \in SeqsUpTo(ExecKeyVals, MaxRows)}
  /\ df_vals = collect([i \in 1 .. Len(df_keys[1]) |-> v_cell(i)])
  /\ n_threads \in 1 .. MaxThreads
  /\ op = "new"
  /\ by = <<>>
  /\ key_dtype = "Int"
  /\ multithreaded = FALSE
  /\ seed = ZeroSeed
  /\ status = "ok"
  /\ groups = <<>>
  /\ out = Frame(<<>>, <<>>)
  /\ env \in Environs
  /\ aggs = <<>>
  /\ path = "none"
  /\ gb = NoGroupBy

\* the seeds of the shards, drawn when the shards are reduced
EnvironShardSeedsFor(dt, plan) ==
  IF execute_environ(Frame(df_names, df_columns), dt, plan, env, n_threads,
                     [j \in 1 .. n_threads |-> ZeroSeed], ZeroSeed, FALSE).path = "partitioned"
  THEN [1 .. n_threads -> ShardSeeds]
  ELSE {[j \in 1 .. n_threads |-> ZeroSeed]}

\* PartitionGroupByExec::execute on the frame, for one aggregation of v
ExecuteEnviron ==
  /\ op = "new"
  /\ \E method \in {"sum", "first"}, dt \in {"Int", "Categorical"}, sd \in ExecSeeds :
       \E ss \in EnvironShardSeedsFor(dt, <<<<method, "v">>>>), oc \in ExecBuilds(sd) :
          Executed("execute", dt, <<<<method, "v">>>>, sd,
                   execute_environ(Frame(df_names, df_columns), dt, <<<<method, "v">>>>, env,
                                   n_threads, ss, sd, oc))

NextEnviron == ExecuteEnviron

SpecEnviron == InitEnviron /\ [][NextEnviron]_vars

\* ---- group discovery on float keys: one float key column, or two
Float1Vals == {"+0.0", "-0.0", "NaN", "-NaN", FloatNull}

Float1of2Vals == {"+0.0", "-0.0", "NaN"}
Float2of2Vals == {"NaN", "1.0"}

FloatFrames ==
  {<<k1>> : k1 \in SeqsUpTo(Float1Vals, MaxRows)}
    \cup {f \in {<<k1, k2>> : k1 \in SeqsUpTo(Float1of2Vals, MaxRows),
                              k2 \in SeqsUpTo(Float2of2Vals, MaxRows)} : Len(f[1]) = Len(f[2])}

InitFloat ==
  /\ df_keys \in FloatFrames
  /\ df_vals = [i \in 1 .. Len(df_keys[1]) |-> i]
  /\ n_threads \in 1 .. MaxThreads
  /\ op = "new"
  /\ by = <<>>
  /\ key_dtype = "Float"
  /\ multithreaded = FALSE
  /\ seed = ZeroSeed
  /\ status = "ok"
  /\ groups = <<>>
  /\ out = Frame(<<>>, <<>>)
  /\ env = DefaultEnv
  /\ aggs = <<>>
  /\ path = "none"
  /\ gb = NoGroupBy

\* the random states of a call on the keys dom: every key hashed to the
\* bottom or to the top of the hash range, keys the call does not hold to
\* the bottom
FloatSeeds(dom, held) ==
  {sd \in [dom -> {0, HashMod - 1}] : \A k \in dom : k \notin held => sd[k] = 0}

\* by[0].group_tuples(multithreaded) of groupby_with_series on one float key
GroupTuplesFloat ==
  /\ op = "new"
  /\ Len(df_keys) = 1
  /\ \E mt \in BOOLEAN :
       \E sd \in FloatSeeds({to_bits(v) : v \in Float1Vals \ {FloatNull}} \cup {Null}, Range(map_to_bits(df_keys[1]))) :
          \E oc \in (IF /\ mt /\ group_multithreaded(df_keys[1])
                        /\ groupby_threaded_overflows(
                             split_ca(map_to_bits(df_keys[1]), n_threads), sd)
                     THEN BOOLEAN ELSE {FALSE}) :
             Call("group_tuples", df_keys, "Float", mt, sd,
                  impl_into_group_tpls_float(df_keys[1], mt, n_threads, sd, oc))

\* groupby_with_series on two float keys
GroupbyFloatKeys ==
  /\ op = "new"
  /\ Len(df_keys) = 2
  /\ \E mt \in BOOLEAN :
       \E sd \in FloatSeeds(Float1of2Vals \cup Float2of2Vals,
                            Range(df_keys[1]) \cup Range(df_keys[2])) :
          Call("groupby_with_series", df_keys, "Float", mt, sd,
               groupby_with_series(df_height, df_keys, "Float", mt, n_threads, sd, FALSE))

NextFloat == GroupTuplesFloat \/ GroupbyFloatKeys

SpecFloat == InitFloat /\ [][NextFloat]_vars

\* ---- the executors with kernels that may fail, on two aggregations of v
Phases == {"", "aggregate", "evaluate_partitioned", "evaluate_partitioned_final"}

TryPlans == {<<<<"sum", "v", p1>>, <<"max", "v", p2>>>> : p1 \in Phases, p2 \in Phases}

\* NO_PARTITION set, and the threshold set to 1.0
TryEnvs == {[DefaultEnv EXCEPT !.no_partition = TRUE], [DefaultEnv EXCEPT !.cardinality_frac = 100]}

InitTry ==
  /\ df_keys \in {<<k>> : k \in SeqsUpTo(ExecKeyVals, MaxRows)}
  /\ df_vals = collect([i \in 1 .. Len(df_keys[1]) |-> v_cell(i)])
  /\ n_threads \in 1 .. MaxThreads
  /\ op = "new"
  /\ by = <<>>
  /\ key_dtype = "Int"
  /\ multithreaded = FALSE
  /\ seed = ZeroSeed
  /\ status = "ok"
  /\ groups = <<>>
  /\ out = Frame(<<>>, <<>>)
  /\ env \in TryEnvs
  /\ aggs = <<>>
  /\ path = "none"
  /\ gb = NoGroupBy

\* the shards draw their seeds when they are reduced; the order of their
\* groups is all that depends on them
TryShardSeeds ==
  IF env.no_partition THEN {[j \in 1 .. n_threads |-> ZeroSeed]}
  ELSE {[j \in 1 .. n_threads |-> sd] : sd \in ShardSeeds}

\* PartitionGroupByExec::execute
ExecuteTry ==
  /\ op = "new"
  /\ \E plan \in TryPlans, sd \in ExecSeeds :
       \E ss \in TryShardSeeds, oc \in ExecBuilds(sd) :
          Executed("execute", "Int", plan, sd,
                   execute_try(Frame(df_names, df_columns), "Int", plan, env, n_threads, ss, sd, oc))

\* GroupByExec::execute with apply = None
ExecutePlainTry ==
  /\ op = "new"
  /\ \E plan \in TryPlans, sd \in ExecSeeds :
       \E oc \in ExecBuilds(sd) :
          Executed("execute_plain", "Int", plan, sd,
                   groupby_helper_try(Frame(df_names, df_columns), <<df_keys[1]>>, "Int", plan,
                                      n_threads, sd, oc))

NextTry == ExecuteTry \/ ExecutePlainTry

SpecTry == InitTry /\ [][NextTry]_vars

\* ---- the executors on two aggregations of v
OuterPlans ==
  {<<<<m1, "v">>, <<m2, "v">>>> : m1 \in {"mean", "sum", "list"}, m2 \in PartitionableMethods}

InitOuter ==
  /\ df_keys \in {<<k>> : k \in SeqsUpTo(ExecKeyVals, MaxRows)}
  /\ df_vals = collect([i \in 1 .. Len(df_keys[1]) |-> v_cell(i)])
  /\ n_threads \in 1 .. MaxThreads
  /\ op = "new"
  /\ by = <<>>
  /\ key_dtype = "Int"
  /\ multithreaded = FALSE
  /\ seed = ZeroSeed
  /\ status = "ok"
  /\ groups = <<>>
  /\ out = Frame(<<>>, <<>>)
  /\ env \in TryEnvs
  /\ aggs = <<>>
  /\ path = "none"
  /\ gb = NoGroupBy

\* PartitionGroupByExec::execute
ExecuteOuter ==
  /\ op = "new"
  /\ \E plan \in OuterPlans, sd \in ExecSeeds :
       \E ss \in TryShardSeeds, oc \in ExecBuilds(sd) :
          Executed("execute", "Int", plan, sd,
                   execute(Frame(df_names, df_columns), "Int", plan, env, n_threads, ss, sd, oc))

\* GroupByExec::execute with apply = None
ExecutePlainOuter ==
  /\ op = "new"
  /\ \E plan \in OuterPlans, sd \in ExecSeeds :
       \E oc \in ExecBuilds(sd) :
          Executed("execute_plain", "Int", plan, sd,
                   groupby_helper(Frame(df_names, df_columns), <<df_keys[1]>>, "Int", plan,
                                  n_threads, sd, oc))

NextOuter == ExecuteOuter \/ ExecutePlainOuter

SpecOuter == InitOuter /\ [][NextOuter]_vars

\* ---- group_by by column names, plain and stable
NextStable == Groupby \/ GroupbyStable

SpecStable == Init /\ [][NextStable]_vars

Spec == Init /\ [][Next]_vars

\* ------------------------------------------------- properties: discovery
Discovered ==
  /\ op \in {"groupby_with_series", "groupby", "groupby_stable", "groupby_threaded_flat"}
  /\ status = "ok"

Members(g) == Flatten([i \in 1 .. Len(g) |-> g[i][2]])

\* the key tuple of row idx (0-based) under the key columns of the call
KeyTuple(keys, idx) == [c \in 1 .. Len(keys) |-> keys[c][idx + 1]]

\* the sharded single-key path ran
ShardedSingle == Len(by) = 1 /\ multithreaded /\ group_multithreaded(by[1])

\* some partition predicate of the call added past the largest hash value
CallOverflows ==
  /\ op = "groupby_threaded_flat" \/ ShardedSingle
  /\ groupby_threaded_overflows(split_ca(by[1], n_threads), seed)

\* C1: concatenating the member_row_indices of all entries of the GroupIndex
\* returned by group discovery yields a permutation of [0, n): every row
\* index appears in exactly one entry, exactly once.
C1_PartitionExhaustive ==
  (Discovered /\ op # "groupby_threaded_flat") =>
     /\ Len(Members(groups)) = df_height
     /\ Range(Members(groups)) = 0 .. df_height - 1

\* C2: two row indices lie in the same entry iff their key tuples are equal,
\* and no key is split over two entries.
C2_KeyHomogeneous ==
  Discovered =>
     /\ \A e \in 1 .. Len(groups) : \A i, j \in Range(groups[e][2]) :
           KeyTuple(by, i) = KeyTuple(by, j)
     /\ \A e, f \in 1 .. Len(groups) : \A i \in Range(groups[e][2]), j \in Range(groups[f][2]) :
           KeyTuple(by, i) = KeyTuple(by, j) => e = f

\* C3: over any number of contiguous shards, the sharded discovery returns
\* the same entries as the serial discovery once both are sorted.
C3_ThreadedEqualsSerial ==
  (op = "groupby_threaded_flat" /\ status = "ok") =>
     SortGroups(groups) = SortGroups(groupby(df_keys[1], seed))

\* C1 to C3 hold of every call in which no partition predicate overflows.
C1_NoOverflow == CallOverflows \/ C1_PartitionExhaustive
C2_NoOverflow == CallOverflows \/ C2_KeyHomogeneous
C3_NoOverflow == CallOverflows \/ C3_ThreadedEqualsSerial

\* ------------------------------------------- properties: stable ordering
Min(S) == CHOOSE x \in S : \A y \in S : x <= y

StrictlyAscendingFirst(g) == \A i \in 1 .. Len(g) - 1 : g[i][1] < g[i + 1][1]

AscendingFirst(g) == \A i \in 1 .. Len(g) - 1 : g[i][1] <= g[i + 1][1]

\* number of occurrences of entry e in g
Count(g, e) == Cardinality({i \in 1 .. Len(g) : g[i] = e})

SameEntries(g1, g2) ==
  /\ Len(g1) = Len(g2)
  /\ \A e \in Range(g1) \cup Range(g2) : Count(g1, e) = Count(g2, e)

\* the unsorted discovery of the same call
Unsorted == df_groupby(df_height, by, key_dtype, n_threads, seed, FALSE).groups

\* C7: groupby_stable returns entries sorted by strictly ascending
\* first_row_index, each first_row_index being the smallest row index of its
\* group, and the sort only permutes the entries.
C7_StableSorted ==
  (op = "groupby_stable" /\ status = "ok") =>
     /\ StrictlyAscendingFirst(groups)
     /\ \A e \in 1 .. Len(groups) : groups[e][1] = Min(Range(groups[e][2]))
     /\ SameEntries(groups, Unsorted)

C7_NoOverflow == CallOverflows \/ C7_StableSorted

\* C8 as stated: group_by by column names returns its entries in ascending
\* first_row_index order, identical to what groupby_stable returns.
C8_GroupbyIsStable ==
  (op = "groupby" /\ status = "ok") =>
     groups = groupby_stable(df_height, by, key_dtype, n_threads, seed, FALSE).groups

\* C8 amended: group_by returns the entries of the multithreaded discovery
\* in hash-table order; sorting them gives what groupby_stable returns, whose
\* entries are in ascending first_row_index order.
C8_GroupbySortedIsStable ==
  /\ (op = "groupby" /\ status = "ok") =>
        /\ groups = groupby_with_series(df_height, by, key_dtype, TRUE, n_threads, seed, FALSE).groups
        /\ SortGroups(groups) = groupby_stable(df_height, by, key_dtype, n_threads, seed, FALSE).groups
  /\ (op = "groupby_stable" /\ status = "ok") =>
        /\ AscendingFirst(groups)
        /\ SameEntries(groups, Unsorted)

\* a group_by call that returned entries out of first_row_index order, whose
\* stable counterpart differs from it
C8_Witness ==
  /\ op = "groupby" /\ status = "ok"
  /\ ~AscendingFirst(groups)
  /\ Len(groups) >= 2

\* ---------------------------------------------- properties: key validation
LengthMismatch == by = <<>> \/ \E c \in 1 .. Len(by) : Len(by[c]) # df_height

\* C9: groupby_with_series fails with ShapeMisMatch and returns no session
\* whenever the key list is empty or some key column, first or later,
\* differs in length from the frame.
C9_ShapeMismatch ==
  (op = "groupby_with_series" /\ LengthMismatch) =>
     (status = "ShapeMisMatch" /\ groups = <<>>)

\* a later key of the wrong length behind a first key of the right length
C9_Witness ==
  /\ op = "groupby_with_series" /\ status = "ShapeMisMatch"
  /\ Len(by) >= 2 /\ Len(by[1]) = df_height /\ Len(by[2]) # df_height
  /\ df_height >= 2

\* C10: for a key column of any dtype whose length matches the frame,
\* groupby_with_series returns a GroupIndex rather than an error or an abort.
C10_AnyDtype ==
  (op = "groupby_with_series" /\ ~LengthMismatch) => status = "ok"


\* --------------------------------------------------- properties: apply
\* C6: group_by(K).apply(identity), with its rows put back in the original
\* row order (sorted on the column that numbers the rows), equals the frame
\* row for row.
C6_ApplyIdentity ==
  op = "apply" => df_sort(out.cols, Len(out.cols)) = df_columns

C6_NoOverflow == CallOverflows \/ C6_ApplyIdentity

\* ----------------------------------------------- properties: executors
\* the frame of the executors
df_frame == Frame(df_names, df_columns)

\* a partitioned execution that returned a frame
Partitioned == op = "execute" /\ path = "partitioned" /\ status = "ok"

\* the seed overflows no partition predicate
SeedFits(sd) == \A k \in ExecKeyVals : ~u64_add_overflows(sd[k], n_threads - 1)

\* the frames are element-wise equal after sorting on the key column
EqualOnKey(a, b) == df_sort(a.cols, 1) = df_sort(b.cols, 1)

\* C4: for every partitionable kernel, every frame and every shard count,
\* the frame of the partitioned executor and the frame of the plain executor
\* are element-wise equal after sorting on the key column.
C4_PartitionedEqualsPlain ==
  Partitioned =>
    \A sd \in ExecSeeds :
       EqualOnKey(out, groupby_helper(df_frame, by, key_dtype, aggs, n_threads, sd, FALSE).df)

\* the same for every kernel but mean, when no seed overflows
C4_NoOverflowNoMean ==
  (Partitioned /\ SeedFits(seed) /\ aggs[1][1] # "mean") =>
    \A sd \in ExecSeeds :
       SeedFits(sd) =>
         EqualOnKey(out, groupby_helper(df_frame, by, key_dtype, aggs, n_threads, sd, FALSE).df)

\* the mean of the non-null values of the rows of key k, null if there is
\* none
RowsOf(k) == SelectSeq([i \in 1 .. df_height |-> i], LAMBDA i : df_keys[1][i] = k)

plain_mean(k) ==
  LET vs == SelectSeq([i \in 1 .. Len(RowsOf(k)) |-> df_vals[RowsOf(k)[i]]], IsValid)
  IN  Ratio(sum_values(vs), Len(vs))

\* C5: when the value column holds nulls, the partitioned mean of every
\* group equals the mean of the group's non-null values, and is null when
\* the group has none.
C5_PartitionedMeanSkipsNulls ==
  (Partitioned /\ aggs = <<<<"mean", "v">>>> /\ Null \in Range(df_vals)) =>
    \A g \in 1 .. Len(out.cols[1]) : out.cols[2][g] = plain_mean(out.cols[1][g])

\* without nulls the partitioned mean is the mean, when no seed overflows
C5_NoNullsNoOverflow ==
  (Partitioned /\ aggs = <<<<"mean", "v">>>> /\ Null \notin Range(df_vals) /\ SeedFits(seed)) =>
    \A g \in 1 .. Len(out.cols[1]) : out.cols[2][g] = plain_mean(out.cols[1][g])

\* ------------------------------------------- properties: eager methods
\* the kernel-name tokens the interface documents
AcceptedTokens ==
  {"min", "max", "mean", "sum", "first", "last", "n_unique", "median", "std", "var", "count"}

TokensOf(column_to_agg) ==
  UNION {Range(column_to_agg[i][2]) : i \in 1 .. Len(column_to_agg)}

Unsupported(token) == "UnsupportedAggregation: " \o token

NoFrame == Frame(<<>>, <<>>)

\* C11: a token that is not an accepted kernel name, passed to agg or to
\* the driver of the binding, makes the call return the error value
\* UnsupportedAggregation carrying that token, and no frame.
C11_UnknownTokenFails ==
  /\ op = "agg" =>
       \A token \in TokensOf(aggs) \ AcceptedTokens : status = Unsupported(token) /\ out = NoFrame
  /\ op = "finish_groupby" =>
       \A token \in Range(aggs) \ AcceptedTokens : status = Unsupported(token) /\ out = NoFrame

\* C12: a quantile outside [0, 1] fails with ValueError on the eager route
\* (GroupBy::quantile) and on the planner's route (the physical expression
\* of an Agg Quantile node), before any group is reduced.
C12_QuantileOutOfRange ==
  (op \in {"quantile", "create_physical_expr"} /\ ~(0 <= aggs[1] /\ aggs[1] <= 100))
    => status = "ValueError" /\ out = NoFrame

\* the targets of the session whose dtype has no kernel for the method
NoKernelTargets(method) ==
  {i \in 1 .. Len(gb.df) : /\ contains(selection_of(gb), gb.df[i].name)
                            /\ ~has_kernel(method, gb.df[i].dtype)}

Reduced == op \in ReduceMethods /\ select_series(gb.df, selection_of(gb)).status = "ok"

\* C13 as stated: a reduction method fails with UnsupportedAggregation if
\* a target column's dtype has no kernel for the method.
C13_NoKernelFails ==
  (Reduced /\ NoKernelTargets(op) # {}) => status = Unsupported(op)

\* C13, amended: a reduction method succeeds when a target column's dtype
\* has no kernel for the method, and its result has no column for that
\* target.
C13_NoKernelOmitted ==
  (Reduced /\ NoKernelTargets(op) # {})
    => /\ status = "ok"
       /\ \A i \in NoKernelTargets(op) :
             ~contains(out.names, fmt_groupby_column(gb.df[i].name, op))

C13_Witness ==
  /\ op = "sum"
  /\ gb.selected_agg = None
  /\ get_column_names(gb.df) = <<"k", "v", "s">>
  /\ get_column_names(gb.selected_keys) = <<"k">>
  /\ out.names = <<"k", "v_sum">>
  /\ Len(df_keys[1]) = MaxRows

\* the names of the key Series of the session
KeyNamesOf == get_column_names(gb.selected_keys)

NotKey(a) == ~contains(KeyNamesOf, a)

\* the targets the claim names: the selection or, without one, the
\* columns of the frame that no key is named after, in frame order
Targets ==
  IF gb.selected_agg = None THEN SelectSeq(get_column_names(gb.df), NotKey)
  ELSE gb.selected_agg[1]

AggregatedNames(targets, method) ==
  collect([i \in 1 .. Len(targets) |-> fmt_groupby_column(targets[i], method)])

\* C14: without a select the targets are the frame's columns that no key
\* column is named after, in frame order, so no key column is aggregated;
\* after select(cols) they are cols, a later select replacing the earlier
\* one; the result holds the key columns, then aggregated targets only.
C14_Targets ==
  /\ [](/\ (op \in {"count", "first", "last"} /\ status = "ok")
             => out.names = KeyNamesOf \o AggregatedNames(Targets, op)
        /\ (op \in ReduceMethods /\ status = "ok")
             => /\ SubSeq(out.names, 1, Len(KeyNamesOf)) = KeyNamesOf
                /\ \A c \in Len(KeyNamesOf) + 1 .. Len(out.names) :
                      contains(AggregatedNames(Targets, op), out.names[c])
                /\ gb.selected_agg = None
                     => \A c \in 1 .. Len(KeyNamesOf) :
                           ~contains(out.names, fmt_groupby_column(KeyNamesOf[c], op)))
  /\ [][op' = "select" => \E cols \in AggSelections : gb'.selected_agg = Some(cols)]_vars

C14_Witness ==
  /\ op = "first"
  /\ gb.selected_agg = None
  /\ get_column_names(gb.df) = <<"s", "v", "k">>
  /\ KeyNamesOf = <<"k">>
  /\ out.names = <<"k", "s_first", "v_first">>
  /\ Len(groups) > 1

\* C15: count gives, for every group, the number of its member rows, nulls
\* included, so the counts of a column add up to the height of the frame.
C15_CountsSumToHeight ==
  (op = "count" /\ status = "ok") =>
     \A c \in Len(KeyNamesOf) + 1 .. Len(out.cols) :
        /\ \A g \in 1 .. Len(groups) : out.cols[c][g] = Len(groups[g][2])
        /\ sum_values(out.cols[c]) = df_height

\* C15 holds of every session whose discovery overflowed no partition
\* predicate.
C15_NoOverflow == CallOverflows \/ C15_CountsSumToHeight

\* ------------------------------------------------ properties: the planner
Planned == op = "create_initial_physical_plan"

IsAgg(e, methods) == e[1] = "agg" /\ e[2] \in methods

C17_NeverPartitioned ==
  Planned =>
    \A i \in 1 .. Len(aggs.aggs) :
       (\/ IsAgg(aggs.aggs[i], {"median", "quantile", "std", "var", "n_unique", "count"})
        \/ has_aexpr(aggs.aggs[i], {"binary", "ternary", "sort_by", "filter", "udf"}))
         => path # "PartitionGroupByExec"

\* -------------------------------------------- properties: the environment
Executing == op = "execute"

\* the variable holds a Unicode string
Readable(name) == env[name].set /\ env[name].unicode

\* the frame of the execution
ExecFrame == Frame(df_names, df_columns)

\* C18 as stated: with NO_PARTITION set to any value no shard is reduced
\* and the plain path is taken.
C18_NoPartitionSet == (Executing /\ env["NO_PARTITION"].set) => path = "plain"

\* C18, amended: with POLARS_NO_PARTITION set to any Unicode string, the
\* empty one included, no shard is reduced: the plain single-key path is
\* taken and its result returned.
C18_PolarsNoPartitionSet ==
  (Executing /\ Readable("POLARS_NO_PARTITION")) =>
     /\ path = "plain"
     /\ \E oc \in BOOLEAN :
           LET r == groupby_helper(ExecFrame, <<df_keys[1]>>, key_dtype, aggs, n_threads, seed, oc)
           IN  status = r.status /\ out = r.df

C18_Witness ==
  /\ Executing
  /\ env["POLARS_NO_PARTITION"] = Str("")
  /\ env["POLARS_PARTITION_CARDINALITY_FRAC"] = Str("1.0")
  /\ Len(df_keys[1]) = MaxRows
  /\ path = "plain"
  /\ status = "ok"

\* the sample size and the threshold (in hundredths) a reading of the
\* variables gives
SizeOf(name) == IF Readable(name) THEN parse_usize(env[name].value) ELSE Some(DEFAULT_SAMPLE_SIZE)

ThresholdOf(name) ==
  IF Readable(name) THEN parse_f32(env[name].value) ELSE Some(DEFAULT_CARDINALITY_FRAC)

\* the cardinality fraction <<numerator, denominator>> of the key
FracOf(size) ==
  IF key_dtype = "Categorical"
  THEN <<Cardinality(Range(df_keys[1]) \ {Null}), Len(df_keys[1])>>
  ELSE sample_cardinality(df_keys[1], size)

\* C19 as stated: with NO_PARTITION unset the plain path is run exactly
\* when frac is greater than the threshold, 0.10 or the value of
\* PARTITION_CARDINALITY_FRAC.
C19_ThresholdGate ==
  (Executing /\ ~env["NO_PARTITION"].set) =>
     LET frac == FracOf(DEFAULT_SAMPLE_SIZE)
         threshold == ThresholdOf("PARTITION_CARDINALITY_FRAC")[1]
     IN  (path = "plain") <=> (frac[1] * 100 > threshold * frac[2])

\* C19, amended: with POLARS_NO_PARTITION unset or not Unicode, the plain
\* path is run exactly when frac is greater than the threshold, which is
\* 0.10 unless POLARS_PARTITION_CARDINALITY_FRAC holds a string that parses
\* as f32; frac equal to the threshold runs partitioned; a string that does
\* not parse aborts the execution before either path.
C19_PolarsThresholdGate ==
  (Executing /\ ~Readable("POLARS_NO_PARTITION")) =>
     LET threshold == ThresholdOf("POLARS_PARTITION_CARDINALITY_FRAC")
         size == SizeOf("POLARS_PARTITION_SAMPLE_SIZE")
     IN  IF threshold = None \/ (key_dtype # "Categorical" /\ size = None)
         THEN path = "none" /\ status = "panic: called Result::unwrap() on an Err value"
         ELSE LET frac == FracOf(IF size = None THEN DEFAULT_SAMPLE_SIZE ELSE size[1])
              IN  /\ path \in {"plain", "partitioned"}
                  /\ (path = "plain") <=> (frac[1] * 100 > threshold[1] * frac[2])

C19_Witness ==
  /\ Executing
  /\ key_dtype = "Categorical"
  /\ env["POLARS_NO_PARTITION"] = NotUnicode
  /\ env["POLARS_PARTITION_CARDINALITY_FRAC"] = Str("0.5")
  /\ df_keys[1] = <<0, 0>>
  /\ path = "partitioned"
  /\ status = "ok"

\* ------------------------------------------------- properties: null keys
\* the entries of the GroupIndex whose key is null, and the rows whose key
\* is null
NullEntries == {e \in 1 .. Len(groups) : by[1][groups[e][1] + 1] = Null}

NullRows == {i \in 0 .. Len(by[1]) - 1 : by[1][i + 1] = Null}

\* C20: on the single-key paths, serial and sharded, the rows whose key is
\* null form one entry of their own: a column of nulls only gives one entry
\* holding every row, and a column with some nulls gives exactly one null
\* entry besides the entries of the values.
C20_NullsOneGroup ==
  (Discovered /\ Len(by) = 1) =>
     /\ Cardinality(NullEntries) = IF NullRows = {} THEN 0 ELSE 1
     /\ \A e \in NullEntries : Range(groups[e][2]) = NullRows
     /\ (by[1] # <<>> /\ Range(by[1]) = {Null})
          => Len(groups) = 1 /\ Len(groups[1][2]) = Len(by[1])

\* C20 holds of every call in which no partition predicate overflows.
C20_NoOverflow == CallOverflows \/ C20_NullsOneGroup

\* ------------------------------------------ properties: output column names
\* the name the interface documents for method M on column c
NameOf(c, M) == c \o "_" \o M

\* the non-key columns of the returned frame
AggNames == SubSeq(out.names, Len(KeyNamesOf) + 1, Len(out.names))

\* the names a dedicated method gives its columns on the session
DedicatedNames(M) ==
  LET names == reduce(gb, M).df.names
  IN  SubSeq(names, Len(KeyNamesOf) + 1, Len(names))

\* C21: the result column of method M on column c is named c_M for every
\* kernel (min, max, mean, sum, first, last, n_unique, median, std, var,
\* count, list), groups gives "groups" and quantile(q) gives c_quantile_q
\* with two decimals; agg with the token M gives the same name as the
\* dedicated method.
C21_ColumnNaming ==
  /\ (op \in ReduceMethods /\ status = "ok") =>
        \A c \in 1 .. Len(AggNames) : \E t \in Range(Targets) : AggNames[c] = NameOf(t, op)
  /\ (op = "quantile" /\ status = "ok") =>
        \A c \in 1 .. Len(AggNames) :
           \E t \in Range(Targets) : AggNames[c] = t \o "_quantile_" \o fmt_2(aggs[1])
  /\ (op = "finish_groupby" /\ aggs = <<"groups">> /\ status = "ok") => AggNames = <<"groups">>
  /\ (op = "agg" /\ status = "ok") =>
        \A i \in 1 .. Len(aggs) : \A M \in Range(aggs[i][2]) :
           /\ contains(AggNames, NameOf(aggs[i][1], M)) => contains(DedicatedNames(M), NameOf(aggs[i][1], M))
           /\ \A c \in 1 .. Len(AggNames) : \E j \in 1 .. Len(aggs) : \E N \in Range(aggs[j][2]) :
                 AggNames[c] = NameOf(aggs[j][1], N)

\* the methods whose dedicated name is not c_M
PrefixedMethods == {"std", "var", "list"}

\* C21 holds of every method but std, var and list, whose dedicated name
\* carries agg_ before the method.
C21_ExceptPrefixed ==
  (op \in PrefixedMethods \/ (op = "agg" /\ TokensOf(aggs) \cap PrefixedMethods # {}))
    \/ C21_ColumnNaming

\* ------------------------------------------------- properties: float keys
\* the bit pattern of a float as <<sign, exponent, mantissa>>, a null
\* having none
BitPattern(v) ==
  CASE v = "+0.0" -> <<0, 0, 0>>
    [] v = "-0.0" -> <<1, 0, 0>>
    [] v = "1.0" -> <<0, 0, 1>>
    [] v = "NaN" -> <<0, 1, 1>>
    [] v = "-NaN" -> <<1, 1, 1>>
    [] v = FloatNull -> <<>>

SameBits(i, j) == \A c \in 1 .. Len(by) : BitPattern(by[c][i + 1]) = BitPattern(by[c][j + 1])

SameGroup(i, j) == \E e \in 1 .. Len(groups) : i \in Range(groups[e][2]) /\ j \in Range(groups[e][2])

FloatGrouped == op \in {"group_tuples", "groupby_with_series"} /\ key_dtype = "Float" /\ status = "ok"

C23_FirstIsHead ==
  Discovered =>
    \A e \in 1 .. Len(groups) :
       /\ groups[e][2] # <<>>
       /\ groups[e][2][1] = groups[e][1]
       /\ \A m \in Range(groups[e][2]) :
             m \in 0 .. Len(by[1]) - 1 /\ KeyTuple(by, m) = KeyTuple(by, groups[e][1])

\* the sharded path on two shards: the group of key 1 starts in the second
\* shard, at row 1 of the frame
C23_Witness ==
  /\ Discovered
  /\ ShardedSingle
  /\ n_threads = 2
  /\ by = <<<<0, 1, 1>>>>
  /\ \E e \in 1 .. Len(groups) : groups[e] = <<1, <<1, 2>>>>

\* ------------------------------------------ properties: partition predicate
\* the workers whose table takes a row of hash h
Owners(h) == {t \in 0 .. n_threads - 1 : partition_pred(h, t, n_threads)}

RowOwners(h) == {t \in 0 .. n_threads - 1 : this_thread(h, t, n_threads)}

ShardedCall ==
  /\ op \in {"groupby_with_series", "groupby", "groupby_stable", "groupby_threaded_flat"}
  /\ op = "groupby_threaded_flat" \/ ShardedSingle

\* C24: for every hash h, the sum h + t being taken in unsigned 64-bit
\* arithmetic, and every worker count T, exactly one worker t in [0, T)
\* satisfies (h + t) mod T == 0, so every row goes to exactly one worker's
\* table, and no worker aborts while evaluating the predicate.
C24_OneWorkerPerHash ==
  /\ ShardedCall =>
       /\ status = "ok"
       /\ \A i \in 1 .. Len(by[1]) : Cardinality(Owners(Hash(seed, by[1][i]))) = 1
  /\ (Discovered /\ Len(by) >= 2 /\ multithreaded) =>
       \A i \in 1 .. Len(by[1]) : Cardinality(RowOwners(row_hash(by, seed, Len(by), i))) = 1

\* C24 holds of every call none of whose sums h + t passes the largest
\* hash value.
C24_NoOverflow == CallOverflows \/ C24_OneWorkerPerHash

\* -------------------------------------- properties: the cardinality sample
\* the rows of the key from the middle on, at most S of them
MiddleSlice(key, S) ==
  LET start == Len(key) \div 2
  IN  SubSeq(key, start + 1, IF start + S < Len(key) THEN start + S ELSE Len(key))

\* an execution that estimated the cardinality of its key from a sample
Sampled ==
  /\ Executing
  /\ key_dtype # "Categorical"
  /\ ~Readable("POLARS_NO_PARTITION")
  /\ ThresholdOf("POLARS_PARTITION_CARDINALITY_FRAC") # None
  /\ SizeOf("POLARS_PARTITION_SAMPLE_SIZE") # None

SampleSize == SizeOf("POLARS_PARTITION_SAMPLE_SIZE")[1]

Threshold == ThresholdOf("POLARS_PARTITION_CARDINALITY_FRAC")[1]

\* C25 as stated: the estimate of a non-categorical key is the number of
\* unique values of the middle slice of length S over S, also when the
\* column has fewer than S rows after the start of the slice.
C25_UniqueOverSampleSize ==
  Sampled =>
    LET smp == MiddleSlice(df_keys[1], SampleSize)
    IN  (path = "plain") <=> (Cardinality(Range(smp)) * 100 > Threshold * SampleSize)

\* C25, amended: the estimate is the number of unique values of the slice
\* over the length of the slice, which starts at row n / 2 and holds S rows
\* or, if fewer are left, the rest of the column.
C25_UniqueOverSliceLength ==
  Sampled =>
    LET n == Len(df_keys[1])
        smp == MiddleSlice(df_keys[1], SampleSize)
    IN  /\ Len(smp) = IF n - n \div 2 < SampleSize THEN n - n \div 2 ELSE SampleSize
        /\ path \in {"plain", "partitioned"}
        /\ (path = "plain") <=> (Cardinality(Range(smp)) * 100 > Threshold * Len(smp))

\* a column with fewer rows than the sample size behind its middle: one
\* unique value in a slice of two is above the threshold of 0.1
C25_Witness ==
  /\ Sampled
  /\ ~env["POLARS_PARTITION_SAMPLE_SIZE"].set
  /\ ~env["POLARS_PARTITION_CARDINALITY_FRAC"].set
  /\ df_keys[1] = <<0, 1, 1>>
  /\ path = "plain"
  /\ status = "ok"

\* ------------------------------------------- properties: kernel errors
\* the phases whose kernels ran on the path the execution took
PhasesRun ==
  IF path = "plain" THEN {"aggregate"} ELSE {"evaluate_partitioned", "evaluate_partitioned_final"}

FailedKernels == {a \in 1 .. Len(aggs) : aggs[a][3] \in PhasesRun}

Ran == op \in {"execute", "execute_plain"}

\* C26: an error raised by a kernel during the outer reduce of the
\* partitioned executor is returned by execute, as an error of the partial
\* map or of the plain executor is; execute never returns a frame that
\* lacks the column whose outer kernel failed.
C26_KernelErrorSurfaced ==
  Ran =>
    /\ FailedKernels # {} => status # "ok"
    /\ status = "ok" => Len(out.names) = 1 + Len(aggs)

\* the errors of the plain executor and of the partial map are returned
C26_PlainAndPartialSurfaced ==
  (/\ Ran
   /\ \E a \in 1 .. Len(aggs) :
         aggs[a][3] = (IF path = "plain" THEN "aggregate" ELSE "evaluate_partitioned"))
    => status # "ok" /\ out = NoFrame

\* ---------------------------------------- properties: multi-key collisions
\* the composite hash of row i (0-based) of the keys of the call
RowHash(i) == row_hash(by, seed, Len(by), i + 1)

\* the first key column on which two rows differ, 0 if there is none
FirstMismatch(i, j) ==
  LET diff == {c \in 1 .. Len(by) : by[c][i + 1] # by[c][j + 1]}
  IN  IF diff = {} THEN 0 ELSE Min(diff)

MultiKey == Discovered /\ Len(by) >= 2

\* C27: in multi-key grouping two rows of equal composite hash whose key
\* tuples differ in some column lie in different entries; a hit is accepted
\* only if the stored row and the probing row are equal on every key
\* column, and the comparison stops at the first column that differs.
C27_CollisionsResolved ==
  MultiKey =>
    /\ \A i, j \in 0 .. df_height - 1 :
          /\ (RowHash(i) = RowHash(j) /\ KeyTuple(by, i) # KeyTuple(by, j)) => ~SameGroup(i, j)
          /\ compare_df_rows(by, i, j) <=> (FirstMismatch(i, j) = 0)
          /\ compared_from(by, 1, i, j)
               = IF FirstMismatch(i, j) = 0 THEN Len(by) ELSE FirstMismatch(i, j)
    /\ \A e \in 1 .. Len(groups) : \A m \in Range(groups[e][2]) :
          compare_df_rows(by, groups[e][1], m)

\* every row hashes alike; rows 0 and 2 differ from row 1 in the second
\* key only
C27_Witness ==
  /\ MultiKey
  /\ multithreaded
  /\ by = <<<<0, 0, 0>>, <<0, Null, 0>>>>
  /\ \A i \in 0 .. 2 : RowHash(i) = RowHash(0)
  /\ SortGroups(groups) = <<<<0, <<0, 2>>>>, <<1, <<1>>>>>>

\* ------------------------------------------ properties: the final names
\* the names of the partial frames the shards return
PartialNames ==
  merge_frames(run_partititions(df_frame, key_dtype, aggs, n_threads,
                                [j \in 1 .. n_threads |-> ZeroSeed])).names

\* the frame of the plain executor for the same aggregations
PlainFrame == groupby_helper(df_frame, by, key_dtype, aggs, n_threads, ZeroSeed, FALSE).df

TargetsOf == select_series(gb.df, selection_of(gb)).cols

\* the result names of the targets whose dtype has a kernel for the method
SomeNames(method) ==
  LET some(s) == has_kernel(method, s.dtype)
      targets == SelectSeq(TargetsOf, some)
  IN  [i \in 1 .. Len(targets) |-> fmt_groupby_column(targets[i].name, method)]

\* C29: when the kernel returns None for a target column, the reduction
\* method still succeeds; its frame holds the key columns, then one column
\* for each target whose kernel returned Some and no other, each as long
\* as the number of groups.
C29_KeysAndSomeColumns ==
  (Reduced /\ NoKernelTargets(op) # {})
    => /\ status = "ok"
       /\ out.names = KeyNamesOf \o SomeNames(op)
       /\ Len(out.cols) = Len(out.names)
       /\ \A c \in 1 .. Len(out.cols) : Len(out.cols[c]) = Len(gb.groups)

C29_Witness ==
  /\ op = "n_unique"
  /\ gb.selected_agg # None /\ gb.selected_agg[1] = <<"s", "v">>
  /\ \E i \in 1 .. Len(gb.df) : gb.df[i].name = "s" /\ gb.df[i].dtype = "Float"
  /\ status = "ok"
  /\ out.names = <<"k", "v_n_unique">>
  /\ Len(gb.groups) = 2
  /\ Len(out.cols[2]) = 2

\* ------------------------------------------ properties: order of members
StrictlyAscending(s) == \A i \in 1 .. Len(s) - 1 : s[i] < s[i + 1]

\* C30: in every GroupIndex of every discovery path (serial, sharded with
\* any shard count, single or multi key) the member_row_indices of each
\* entry are strictly ascending, so first_row_index is the least row index
\* of the group also where stable ordering was not requested.
C30_MembersAscending ==
  Discovered =>
    \A e \in 1 .. Len(groups) :
       /\ StrictlyAscending(groups[e][2])
       /\ \A m \in Range(groups[e][2]) : groups[e][1] <= m
       /\ \A r \in 0 .. Len(by[1]) - 1 :
             KeyTuple(by, r) = KeyTuple(by, groups[e][1]) => groups[e][1] <= r

\* the unstable sharded path on three shards: the group of key 1 spans the
\* first and the last shard and comes after the group of key 0
C30_Witness ==
  /\ op = "groupby"
  /\ status = "ok"
  /\ ShardedSingle
  /\ n_threads = 3
  /\ by = <<<<1, 0, 1>>>>
  /\ groups = <<<<1, <<1>>>>, <<0, <<0, 2>>>>>>

====
